---- MODULE Spec2Model ----
(***************************************************************************)
(* The graph state engine of Avalon Scribe (src/hooks/useGraphData.ts):    *)
(* the node and link lists held in React state, the operations that        *)
(* replace them (addConnection, updateNodeName, updateNodeType, setGraph,  *)
(* clearGraph) and the five-second expiration sweep.                       *)
(*                                                                         *)
(* Strings are sequences of one-character strings, so that trim and        *)
(* toUpperCase are computed and not assumed.  Time is Date.now() in        *)
(* milliseconds, sampled at the instants around minute boundaries.         *)
(***************************************************************************)
EXTENDS Integers, Sequences, FiniteSets, TLC

\* ------------------------------------------------------------------ bounds

\* Behaviours are explored up to this many operations, clock readings included.
MaxSteps == 4

\* The longest text a pure function is called with.
MaxLen == 4

\* ----------------------------------------------------------------- strings

\* JavaScript null / undefined for a string-valued field.
Null == <<"null">>

EmptyStr == << >>

\* String.prototype.toUpperCase, one character.
ToUpperChar(c) ==
  CASE c = "a" -> "A"
    [] c = "b" -> "B"
    [] c = "c" -> "C"
    [] OTHER -> c

toUpperCase(s) == [i \in 1..Len(s) |-> ToUpperChar(s[i])]

RECURSIVE trimStart(_)
trimStart(s) ==
  IF s # << >> /\ Head(s) = " " THEN trimStart(Tail(s)) ELSE s

RECURSIVE trimEnd(_)
trimEnd(s) ==
  IF s # << >> /\ s[Len(s)] = " " THEN trimEnd(SubSeq(s, 1, Len(s) - 1)) ELSE s

\* String.prototype.trim, and the mutant that strips one space from each end.
trimOneSpace(s) ==
  LET t == IF s # << >> /\ Head(s) = " " THEN Tail(s) ELSE s
  IN IF t # << >> /\ t[Len(t)] = " " THEN SubSeq(t, 1, Len(t) - 1) ELSE t

trim(s) == trimEnd(trimStart(s))

\* (id || '').trim().toUpperCase(), and the mutant that forgets the case.
normalizeIdNoCase(id) == trim(IF id = Null \/ id = EmptyStr THEN EmptyStr ELSE id)

normalizeId(id) ==
  toUpperCase(trim(IF id = Null \/ id = EmptyStr THEN EmptyStr ELSE id))

\* ------------------------------------------------------------- zone types

\* A node read from storage that carries no type.
NoType == ""

\* getZoneType of data/zoneNames: a pure lookup, unknown names map to unknown.
getZoneType(id) ==
  CASE id = <<"A">> -> "royal"
    [] id = <<"B">> -> "black"
    [] OTHER -> "unknown"

\* ------------------------------------------------------------------ inputs

\* Zone names as typed or extracted: case and whitespace variants of A, B, C.
RawNames == {<<"a">>, <<" ", "A", " ">>, <<"b">>, <<"c">>}

\* What an observation may carry in origem / destino.
NameInputs == RawNames \cup {EmptyStr}

\* null minutes of an observation.
NullMinutes == -1

\* minutos_ate_fechar as extracted: a portal about to close, or a minute left.
MinuteInputs == {0, 1}

\* The instants at which Date.now() is read: the start and one minute later,
\* so that an expiration lies before, at or after the clock.
Instants == {0, 60 * 1000}

\* ------------------------------------------------------------ link endpoints

\* A link endpoint is the bare id, or, once ForceGraph has bound the link,
\* the node object with that id.  An object is written as its id behind the
\* mark "{", which no string begins with.
Str(id) == id

Obj(id) == <<"{">> \o id

\* typeof e === 'object'
IsObject(e) == e # << >> /\ Head(e) = "{"

\* typeof e === 'object' ? e.id : e, and the mutant that compares e as it is.
EndpointAsIs(e) == e

EndpointId(e) == IF IsObject(e) THEN Tail(e) ELSE e

\* ------------------------------------------------------------------- state

VARIABLES
  graphData,   \* [nodes, links]: the useState value of useGraphData
  now,         \* Date.now()
  last,        \* the operation that produced this state: its name, how it
               \* ended, and how many links (n) and nodes (k) it dropped or,
               \* for a rename or a retyping, rewrote; for a processed queue,
               \* how many updaters ran (n) and how many links went (k)
  steps,       \* how many operations the behaviour has performed
  queue,       \* the updaters handed to setGraphData that React has not run yet
  app,         \* the state of App around the hook: pendingValidation (empty, or
               \* the one connection waiting in the modal), isLoading, and
               \* inFlight, the extractions whose result has not arrived
  call,        \* a call of a pure function: its name (fn), the argument it
               \* was given (arg) and the value it returned (out)
  storage,     \* what localStorage holds under 'avalonScribeMap': nothing, or
               \* the nodes and links of the last map saved
  logs         \* the entries useGraphData handed to the logger during the last
               \* step, oldest first: the level and the text, the text without
               \* the zone names it quotes

vars == <<graphData, now, last, steps, queue, app, call, storage, logs>>

NodeIds(nodes) == {nodes[i].id : i \in 1..Len(nodes)}

\* newNodes.find(node => node.id === id) is defined
HasNode(nodes, id) == \E i \in 1..Len(nodes) : nodes[i].id = id

Init ==
  /\ graphData = [nodes |-> << >>, links |-> << >>]
  /\ now = 0
  /\ last = [op |-> "init", res |-> "", n |-> 0, k |-> 0]
  /\ steps = 0
  /\ queue = << >>
  /\ app = [pendingValidation |-> << >>, isLoading |-> FALSE, inFlight |-> 0]
  /\ call = [fn |-> "none", arg |-> EmptyStr, out |-> EmptyStr]
  /\ storage = [kind |-> "none", nodes |-> << >>, links |-> << >>]
  /\ logs = << >>

\* ------------------------------------------------------------------- logger

\* logger.info / warn / debug: the entry handed to addLog.
LogEntry(level, message) == [level |-> level, message |-> message]

\* ------------------------------------------------------------ addConnection

\* { id, name: id, type: getZoneType(id) }
NewNode(id) == [id |-> id, name |-> id, type |-> getZoneType(id)]

\* if (!newNodes.find(node => node.id === id)) newNodes.push(...)
PushIfMissing(nodes, id) ==
  IF HasNode(nodes, id) THEN nodes ELSE Append(nodes, NewNode(id))

\* The predicate of findIndex: the link joins the two ids, in either order.
LinkJoins(link, origemRaw, destinoRaw) ==
  LET sourceId == EndpointId(link.source)
      targetId == EndpointId(link.target)
  IN  \/ (sourceId = origemRaw /\ targetId = destinoRaw)
      \/ (sourceId = destinoRaw /\ targetId = origemRaw)

\* newLinks.findIndex(...): the first matching position, 0 for "not found".
existingLinkIndex(links, origemRaw, destinoRaw) ==
  LET hits == {i \in 1..Len(links) : LinkJoins(links[i], origemRaw, destinoRaw)}
  IN  IF hits = {} THEN 0 ELSE CHOOSE i \in hits : \A j \in hits : i <= j

\* The updater handed to setGraphData by addConnection; t is Date.now().  The
\* mutant keeps the expiration of a link that would close later.
addConnectionUpdaterKeepLater(prevData, origemRaw, destinoRaw, minutos, t) ==
  LET newNodes == PushIfMissing(PushIfMissing(prevData.nodes, origemRaw), destinoRaw)
      expiration == t + minutos * 60 * 1000
      idx == existingLinkIndex(prevData.links, origemRaw, destinoRaw)
      newLinks ==
        IF idx # 0
          THEN [prevData.links EXCEPT ![idx] =
                  [@ EXCEPT !.expiration = IF @ > expiration THEN @ ELSE expiration]]
          ELSE Append(prevData.links,
                      [source |-> Str(origemRaw), target |-> Str(destinoRaw),
                       expiration |-> expiration])
  IN  [nodes |-> newNodes, links |-> newLinks]

addConnectionUpdater(prevData, origemRaw, destinoRaw, minutos, t) ==
  LET newNodes == PushIfMissing(PushIfMissing(prevData.nodes, origemRaw), destinoRaw)
      expiration == t + minutos * 60 * 1000
      idx == existingLinkIndex(prevData.links, origemRaw, destinoRaw)
      newLinks ==
        IF idx # 0
          THEN [prevData.links EXCEPT ![idx] = [@ EXCEPT !.expiration = expiration]]
          ELSE Append(prevData.links,
                      [source |-> Str(origemRaw), target |-> Str(destinoRaw),
                       expiration |-> expiration])
  IN  [nodes |-> newNodes, links |-> newLinks]

\* !connection.origem || !connection.destino || connection.minutos_ate_fechar === null,
\* and the mutant that does not look at the minutes.
InvalidConnectionNamesOnly(origem, destino, minutos) ==
  \/ origem = Null \/ origem = EmptyStr
  \/ destino = Null \/ destino = EmptyStr

InvalidConnection(origem, destino, minutos) ==
  \/ origem = Null \/ origem = EmptyStr
  \/ destino = Null \/ destino = EmptyStr
  \/ minutos = NullMinutes

\* addConnection returns without calling setGraphData; the mutant lets a link
\* from a zone to itself through.
RejectedInvalidOnly(origem, destino, minutos) ==
  InvalidConnection(origem, destino, minutos)

Rejected(origem, destino, minutos) ==
  \/ InvalidConnection(origem, destino, minutos)
  \/ normalizeId(origem) = normalizeId(destino)

\* What the call of addConnection logs before it hands over its updater.
addConnectionLogs(origem, destino, minutos) ==
  IF InvalidConnection(origem, destino, minutos)
    THEN <<LogEntry("WARN", <<"Attempted to add an invalid connection.">>)>>
  ELSE IF Rejected(origem, destino, minutos)
    THEN <<LogEntry("WARN", <<"Ignored self-loop connection.">>)>>
  ELSE <<LogEntry("INFO", <<"Adding connection">>)>>

\* What the updater of addConnection logs when it runs on prevData.
addConnectionUpdaterLogs(prevData, origemRaw, destinoRaw) ==
  IF existingLinkIndex(prevData.links, origemRaw, destinoRaw) # 0
    THEN <<LogEntry("DEBUG", <<"Updated expiration for link">>)>>
    ELSE << >>

AddConnection(origem, destino, minutos) ==
  LET origemRaw == normalizeId(origem)
      destinoRaw == normalizeId(destino)
  IN  /\ graphData' =
           IF Rejected(origem, destino, minutos)
             THEN graphData
             ELSE addConnectionUpdater(graphData, origemRaw, destinoRaw, minutos, now)
      /\ last' = [op |-> "addConnection",
                  res |-> CASE InvalidConnection(origem, destino, minutos) -> "invalid"
                            [] Rejected(origem, destino, minutos) -> "self-loop"
                            [] existingLinkIndex(graphData.links, origemRaw, destinoRaw) # 0
                                 -> "updated"
                            [] OTHER -> "inserted",
                  n |-> 0, k |-> 0]
      /\ UNCHANGED <<now, queue, app, call, storage>>
      /\ logs' = addConnectionLogs(origem, destino, minutos) \o
                   (IF Rejected(origem, destino, minutos) THEN << >>
                    ELSE addConnectionUpdaterLogs(graphData, origemRaw, destinoRaw))

\* ----------------------------------------------------------- updateNodeName

\* !newName || newName.trim() === '', and the mutant that does not trim.
EmptyNameUntrimmed(newName) == newName = Null \/ newName = EmptyStr

EmptyName(newName) ==
  newName = Null \/ newName = EmptyStr \/ trim(newName) = EmptyStr

\* graphData.nodes.some(node => node.id === newId && node.id !== oldId)
NameTaken(nodes, normalizedOldId, normalizedNewId) ==
  \E i \in 1..Len(nodes) :
    nodes[i].id = normalizedNewId /\ nodes[i].id # normalizedOldId

\* The updater handed to setGraphData by updateNodeName, the mutant that
\* renames the node and leaves the links as they are, and the mutant that
\* leaves the renamed node its type.
updateNodeNameUpdaterKeepType(prevData, normalizedOldId, normalizedNewId) ==
  [nodes |->
     [i \in 1..Len(prevData.nodes) |->
       IF prevData.nodes[i].id = normalizedOldId
         THEN [prevData.nodes[i] EXCEPT !.id = normalizedNewId,
                                        !.name = normalizedNewId]
         ELSE prevData.nodes[i]],
   links |->
     [i \in 1..Len(prevData.links) |->
       LET sourceId == EndpointId(prevData.links[i].source)
           targetId == EndpointId(prevData.links[i].target)
       IN  [prevData.links[i] EXCEPT
              !.source = IF sourceId = normalizedOldId
                           THEN Str(normalizedNewId) ELSE Str(sourceId),
              !.target = IF targetId = normalizedOldId
                           THEN Str(normalizedNewId) ELSE Str(targetId)]]]

updateNodeNameUpdaterNodesOnly(prevData, normalizedOldId, normalizedNewId) ==
  [prevData EXCEPT !.nodes =
    [i \in 1..Len(prevData.nodes) |->
      IF prevData.nodes[i].id = normalizedOldId
        THEN [prevData.nodes[i] EXCEPT !.id = normalizedNewId,
                                       !.name = normalizedNewId,
                                       !.type = getZoneType(normalizedNewId)]
        ELSE prevData.nodes[i]]]

updateNodeNameUpdater(prevData, normalizedOldId, normalizedNewId) ==
  LET newNodes ==
        [i \in 1..Len(prevData.nodes) |->
          IF prevData.nodes[i].id = normalizedOldId
            THEN [prevData.nodes[i] EXCEPT !.id = normalizedNewId,
                                           !.name = normalizedNewId,
                                           !.type = getZoneType(normalizedNewId)]
            ELSE prevData.nodes[i]]
      newLinks ==
        [i \in 1..Len(prevData.links) |->
          LET link == prevData.links[i]
              sourceId == EndpointId(link.source)
              targetId == EndpointId(link.target)
          IN  [link EXCEPT
                 !.source = IF sourceId = normalizedOldId
                              THEN Str(normalizedNewId) ELSE Str(sourceId),
                 !.target = IF targetId = normalizedOldId
                              THEN Str(normalizedNewId) ELSE Str(targetId)]]
  IN  [nodes |-> newNodes, links |-> newLinks]

\* The return value of updateNodeName, read against the rendered nodes, the
\* mutant without the collision check, and the mutant that fails when the old
\* name has no node.
RenameFailsOnUnknownOld(nodes, oldName, newName) ==
  \/ EmptyName(newName)
  \/ NameTaken(nodes, normalizeId(oldName), normalizeId(newName))
  \/ \A i \in 1..Len(nodes) : nodes[i].id # normalizeId(oldName)

RenameFailsOnEmptyOnly(nodes, oldName, newName) == EmptyName(newName)

RenameFails(nodes, oldName, newName) ==
  \/ EmptyName(newName)
  \/ NameTaken(nodes, normalizeId(oldName), normalizeId(newName))

\* What the call of updateNodeName logs; nodes are the rendered nodes.
updateNodeNameLogs(nodes, oldName, newName) ==
  IF EmptyName(newName)
    THEN <<LogEntry("WARN", <<"Attempted to update node with empty name.">>)>>
  ELSE IF NameTaken(nodes, normalizeId(oldName), normalizeId(newName))
    THEN <<LogEntry("WARN", <<"Attempted to rename node to an existing name">>)>>
  ELSE <<LogEntry("INFO", <<"Updating node name">>)>>

UpdateNodeName(oldName, newName) ==
  LET normalizedOldId == normalizeId(oldName)
      normalizedNewId == normalizeId(newName)
      fails == RenameFails(graphData.nodes, oldName, newName)
  IN  /\ graphData' =
           IF fails THEN graphData
           ELSE updateNodeNameUpdater(graphData, normalizedOldId, normalizedNewId)
      /\ last' = [op |-> "updateNodeName",
                  res |-> CASE EmptyName(newName) -> "empty"
                            [] fails -> "taken"
                            [] OTHER -> "renamed",
                  n |-> Cardinality({i \in 1..Len(graphData.links) :
                                       graphData'.links[i] # graphData.links[i]}),
                  k |-> Cardinality({i \in 1..Len(graphData.nodes) :
                                       graphData'.nodes[i] # graphData.nodes[i]})]
      /\ UNCHANGED <<now, queue, app, call, storage>>
      /\ logs' = updateNodeNameLogs(graphData.nodes, oldName, newName)

\* ----------------------------------------------------------- updateNodeType

\* The updater handed to setGraphData by updateNodeType, and the mutant that
\* does not compare the id.
updateNodeTypeUpdaterAll(prevData, normalizedId, newType) ==
  [prevData EXCEPT !.nodes =
    [i \in 1..Len(prevData.nodes) |-> [prevData.nodes[i] EXCEPT !.type = newType]]]

updateNodeTypeUpdater(prevData, normalizedId, newType) ==
  [prevData EXCEPT !.nodes =
    [i \in 1..Len(prevData.nodes) |->
      IF prevData.nodes[i].id = normalizedId
        THEN [prevData.nodes[i] EXCEPT !.type = newType]
        ELSE prevData.nodes[i]]]

UpdateNodeType(nodeId, newType) ==
  /\ graphData' = updateNodeTypeUpdater(graphData, normalizeId(nodeId), newType)
  /\ last' = [op |-> "updateNodeType", res |-> "", n |-> 0,
              k |-> Cardinality({i \in 1..Len(graphData.nodes) :
                                   graphData.nodes[i].id = normalizeId(nodeId)})]
  /\ UNCHANGED <<now, queue, app, call, storage>>
  /\ logs' = <<LogEntry("INFO", <<"Updating node type">>)>>

\* --------------------------------------------------------------- clearGraph

ClearGraph ==
  /\ graphData' = [nodes |-> << >>, links |-> << >>]
  /\ last' = [op |-> "clearGraph", res |-> "", n |-> 0, k |-> 0]
  /\ UNCHANGED <<now, queue, app, call, storage>>
  /\ logs' = <<LogEntry("INFO", <<"Graph cleared.">>)>>

\* ----------------------------------------------------------------- setGraph

\* idRemap.set(oldId, newId)
MapSet(m, key, val) ==
  [x \in (DOMAIN m) \cup {key} |-> IF x = key THEN val ELSE m[x]]

\* Step 1 of setGraph, the forEach over data.nodes from position i on.
\* acc is [sanitizedNodes, nodeIds, idRemap].  The mutant puts a kept node in
\* front of the ones kept before it.
RECURSIVE ProcessNodesUnshift(_, _, _)
ProcessNodesUnshift(inNodes, i, acc) ==
  IF i > Len(inNodes) THEN acc
  ELSE
    LET node == inNodes[i]
        oldId == node.id
        newId == normalizeId(oldId)
        remap == MapSet(acc.idRemap, oldId, newId)
    IN  ProcessNodesUnshift(inNodes, i + 1,
          IF newId \notin acc.nodeIds
            THEN [sanitizedNodes |->
                    <<[id |-> newId, name |-> newId,
                       type |-> IF node.type # NoType THEN node.type
                                ELSE getZoneType(newId)]>>
                    \o acc.sanitizedNodes,
                  nodeIds |-> acc.nodeIds \cup {newId},
                  idRemap |-> remap]
            ELSE [acc EXCEPT !.idRemap = remap])

RECURSIVE ProcessNodes(_, _, _)
ProcessNodes(inNodes, i, acc) ==
  IF i > Len(inNodes) THEN acc
  ELSE
    LET node == inNodes[i]
        oldId == node.id
        newId == normalizeId(oldId)
        remap == MapSet(acc.idRemap, oldId, newId)
    IN  ProcessNodes(inNodes, i + 1,
          IF newId \notin acc.nodeIds
            THEN [sanitizedNodes |->
                    Append(acc.sanitizedNodes,
                           [id |-> newId, name |-> newId,
                            type |-> IF node.type # NoType THEN node.type
                                     ELSE getZoneType(newId)]),
                  nodeIds |-> acc.nodeIds \cup {newId},
                  idRemap |-> remap]
            ELSE [acc EXCEPT !.idRemap = remap])

\* idRemap.get(raw) || normalizeId(raw): the empty string is falsy as well.
\* The mutant takes an id that no node carried as it is written.
RemappedAsWritten(idRemap, raw) ==
  IF raw \in DOMAIN idRemap /\ idRemap[raw] # EmptyStr THEN idRemap[raw] ELSE raw

Remapped(idRemap, raw) ==
  IF raw \in DOMAIN idRemap /\ idRemap[raw] # EmptyStr
    THEN idRemap[raw]
    ELSE normalizeId(raw)

\* Step 2 of setGraph, the forEach over data.links from position i on.  The
\* mutant skips a link whose two ids a kept link joins already.
RECURSIVE ProcessLinksOnePerPair(_, _, _, _)
ProcessLinksOnePerPair(inLinks, i, done, sanitizedLinks) ==
  IF i > Len(inLinks) THEN sanitizedLinks
  ELSE
    LET link == inLinks[i]
        sourceId == Remapped(done.idRemap, EndpointId(link.source))
        targetId == Remapped(done.idRemap, EndpointId(link.target))
    IN  ProcessLinksOnePerPair(inLinks, i + 1, done,
          IF sourceId \in done.nodeIds /\ targetId \in done.nodeIds
             /\ sourceId # targetId
             /\ existingLinkIndex(sanitizedLinks, sourceId, targetId) = 0
            THEN Append(sanitizedLinks,
                        [link EXCEPT !.source = Str(sourceId),
                                     !.target = Str(targetId)])
            ELSE sanitizedLinks)

RECURSIVE ProcessLinks(_, _, _, _)
ProcessLinks(inLinks, i, done, sanitizedLinks) ==
  IF i > Len(inLinks) THEN sanitizedLinks
  ELSE
    LET link == inLinks[i]
        rawSource == EndpointId(link.source)
        rawTarget == EndpointId(link.target)
        sourceId == Remapped(done.idRemap, rawSource)
        targetId == Remapped(done.idRemap, rawTarget)
    IN  ProcessLinks(inLinks, i + 1, done,
          IF sourceId \in done.nodeIds /\ targetId \in done.nodeIds
             /\ sourceId # targetId
            THEN Append(sanitizedLinks,
                        [link EXCEPT !.source = Str(sourceId),
                                     !.target = Str(targetId)])
            ELSE sanitizedLinks)

\* The snapshot setGraph hands to setGraphData, and the mutant that
\* normalizes every node and merges none.
SanitizedNoMerge(data) ==
  LET done == ProcessNodes(data.nodes, 1,
                [sanitizedNodes |-> << >>, nodeIds |-> {},
                 idRemap |-> [x \in {} |-> EmptyStr]])
  IN  [nodes |-> [i \in 1..Len(data.nodes) |->
                   [id |-> normalizeId(data.nodes[i].id),
                    name |-> normalizeId(data.nodes[i].id),
                    type |-> IF data.nodes[i].type # NoType THEN data.nodes[i].type
                             ELSE getZoneType(normalizeId(data.nodes[i].id))]],
       links |-> ProcessLinks(data.links, 1, done, << >>)]

Sanitized(data) ==
  LET done == ProcessNodes(data.nodes, 1,
                [sanitizedNodes |-> << >>, nodeIds |-> {},
                 idRemap |-> [x \in {} |-> EmptyStr]])
  IN  [nodes |-> done.sanitizedNodes,
       links |-> ProcessLinks(data.links, 1, done, << >>)]

\* What setGraph logs: the sizes of the input, one entry for each node merged
\* into an earlier one, and the two node counts if they differ.
setGraphLogs(data) ==
  LET sanitizedNodes == Sanitized(data).nodes
      merged == Len(data.nodes) - Len(sanitizedNodes)
  IN  <<LogEntry("INFO", <<"Loading graph", Len(data.nodes), Len(data.links)>>)>>
      \o [i \in 1..merged |-> LogEntry("DEBUG", <<"Merged duplicate node">>)]
      \o (IF Len(sanitizedNodes) # Len(data.nodes)
            THEN <<LogEntry("WARN", <<"Sanitization optimized graph",
                                     Len(data.nodes), Len(sanitizedNodes)>>)>>
            ELSE << >>)

SetGraph(data) ==
  /\ graphData' = Sanitized(data)
  /\ last' = [op |-> "setGraph", res |-> "",
              n |-> Len(data.links) - Len(graphData'.links),
              k |-> Len(data.nodes) - Len(graphData'.nodes)]
  /\ UNCHANGED <<now, queue, app, call, storage>>
  /\ logs' = setGraphLogs(data)

\* -------------------------------------------------------- expiration sweep

\* prevData.links.filter(link => link.expiration > now), and its mutant
\* that keeps a link at the instant it expires.
activeLinksInclusive(links, t) ==
  SelectSeq(links, LAMBDA link : link.expiration >= t)

activeLinks(links, t) ==
  SelectSeq(links, LAMBDA link : link.expiration > t)

\* The ids added to connectedNodeIds by the forEach over activeLinks, and the
\* mutant that forgets the target of each link.
connectedNodeIdsSourceOnly(links) ==
  {EndpointId(links[i].source) : i \in 1..Len(links)}

connectedNodeIds(links) ==
  {EndpointId(links[i].source) : i \in 1..Len(links)}
    \cup {EndpointId(links[i].target) : i \in 1..Len(links)}

\* The updater of the setInterval callback; t is Date.now().  Two mutants:
\* one returns every node, one skips the early return.
sweepUpdaterKeepNodes(prevData, t) ==
  LET live == activeLinks(prevData.links, t)
  IN  IF Len(live) = Len(prevData.links)
        THEN prevData
        ELSE [nodes |-> prevData.nodes, links |-> live]

sweepUpdaterAlways(prevData, t) ==
  LET live == activeLinks(prevData.links, t)
  IN  [nodes |-> SelectSeq(prevData.nodes,
                   LAMBDA node : node.id \in connectedNodeIds(live)),
       links |-> live]

sweepUpdater(prevData, t) ==
  LET live == activeLinks(prevData.links, t)
  IN  IF Len(live) = Len(prevData.links)
        THEN prevData
        ELSE [nodes |-> SelectSeq(prevData.nodes,
                          LAMBDA node : node.id \in connectedNodeIds(live)),
              links |-> live]

\* What the updater of the sweep logs when it runs on prevData at t.
sweepLogs(prevData, t) ==
  LET removedCount == Len(prevData.links) - Len(activeLinks(prevData.links, t))
  IN  IF removedCount > 0
        THEN <<LogEntry("INFO", <<"Removed expired link(s)", removedCount>>)>>
        ELSE << >>

\* One tick of the interval timer.
Sweep ==
  /\ graphData' = sweepUpdater(graphData, now)
  /\ last' = [op |-> "sweep", res |-> "", n |-> Len(graphData.links) - Len(graphData'.links),
              k |-> Len(graphData.nodes) - Len(graphData'.nodes)]
  /\ UNCHANGED <<now, queue, app, call, storage>>
  /\ logs' = sweepLogs(graphData, now)

\* -------------------------------------------------------------- environment

\* Time passes: Date.now() is next read at a later instant.
AdvanceTime ==
  /\ \E t \in Instants : t > now /\ now' = t
  /\ last' = [op |-> "advanceTime", res |-> "", n |-> 0, k |-> 0]
  /\ UNCHANGED <<graphData, queue, app, call, storage>>
  /\ logs' = << >>

\* ForceGraph binds the links it is given: it replaces each endpoint id, in
\* place, by the node object carrying that id.
Bound(link) ==
  [link EXCEPT !.source = Obj(EndpointId(link.source)),
               !.target = Obj(EndpointId(link.target))]

Render ==
  /\ \E i \in 1..Len(graphData.links) : graphData.links[i] # Bound(graphData.links[i])
  /\ graphData' = [graphData EXCEPT !.links =
                     [i \in 1..Len(graphData.links) |-> Bound(graphData.links[i])]]
  /\ last' = [op |-> "render", res |-> "", n |-> 0, k |-> 0]
  /\ UNCHANGED <<now, queue, app, call, storage>>
  /\ logs' = << >>

\* ------------------------------------------------------------------ loadMap

\* The item localStorage holds under 'avalonScribeMap': none, text that
\* JSON.parse rejects, an object without links or without nodes, or a map.
\* A stored expiration is a number, the text of a date, or null; it is
\* written as the pair of its JSON type and the instant it denotes.
StoredItem(kind, nodes, links) == [kind |-> kind, nodes |-> nodes, links |-> links]

\* new Date(link.expiration).getTime(): null is the epoch, a number is the
\* instant itself, a text is the instant it spells.
DateGetTime(expiration) ==
  IF expiration[1] = "null" THEN 0 ELSE expiration[2]

\* loadedLinks.map(link => ({...link, expiration: new Date(...).getTime()})),
\* and the mutant that keeps only the links still open.
validatedLinksOpenOnly(loadedLinks) ==
  SelectSeq([i \in 1..Len(loadedLinks) |->
               [loadedLinks[i] EXCEPT !.expiration = DateGetTime(@)]],
            LAMBDA link : link.expiration > now)

validatedLinks(loadedLinks) ==
  [i \in 1..Len(loadedLinks) |->
     [loadedLinks[i] EXCEPT !.expiration = DateGetTime(@)]]

\* The try block of loadMap throws: JSON.parse on the text, loadedLinks.map
\* on a missing list, or data.nodes.length in setGraph on a missing list.
LoadThrows(savedMap) == savedMap.kind \in {"garbage", "no-links", "no-nodes"}

\* What loadMap puts in place of the graph: the result of setGraph.  The
\* mutant assigns the parsed lists as they are.
LoadedRaw(loadedNodes, links) == [nodes |-> loadedNodes, links |-> links]

Loaded(loadedNodes, links) == Sanitized([nodes |-> loadedNodes, links |-> links])

LoadMap(savedMap) ==
  /\ graphData' =
       IF savedMap.kind = "none" \/ LoadThrows(savedMap) THEN graphData
       ELSE Loaded(savedMap.nodes, validatedLinks(savedMap.links))
  /\ last' = [op |-> "loadMap",
              res |-> CASE savedMap.kind = "none" -> "error: no saved map"
                        [] LoadThrows(savedMap) -> "error: failed to load"
                        [] OTHER -> "success",
              n |-> IF savedMap.kind = "map"
                      THEN Len(savedMap.links) - Len(graphData'.links) ELSE 0,
              k |-> IF savedMap.kind = "map"
                      THEN Len(savedMap.nodes) - Len(graphData'.nodes) ELSE 0]
  /\ UNCHANGED <<now, queue, app, call, storage>>
  /\ logs' = IF savedMap.kind = "none" \/ LoadThrows(savedMap) THEN << >>
             ELSE setGraphLogs([nodes |-> savedMap.nodes,
                                links |-> validatedLinks(savedMap.links)])

\* ------------------------------------------------------------------ saveMap

\* links.map(link => ({...link, source: <id>, target: <id>}))
cleanLinks(links) ==
  [i \in 1..Len(links) |->
     [links[i] EXCEPT !.source = Str(EndpointId(links[i].source)),
                      !.target = Str(EndpointId(links[i].target))]]

\* JSON.stringify({ nodes, links: cleanLinks }): an expiration is written as a
\* number.
mapData(nodes, links) ==
  StoredItem("map", nodes,
             [i \in 1..Len(links) |->
                [links[i] EXCEPT !.expiration = <<"number", @>>]])

\* The Save Map button.
SaveMap ==
  /\ storage' = mapData(graphData.nodes, cleanLinks(graphData.links))
  /\ last' = [op |-> "saveMap", res |-> "success", n |-> 0, k |-> 0]
  /\ UNCHANGED <<graphData, now, queue, app, call>>
  /\ logs' = << >>

\* The Load Map button, reading what the Save Map button wrote.
LoadStored == LoadMap(storage)

\* ---------------------------------------------------------------------- App

\* An AlbionConnection.
Connection(origem, destino, minutos) ==
  [origem |-> origem, destino |-> destino, minutos_ate_fechar |-> minutos]

\* What addConnection makes of the graph when React runs its updater at once.
Added(g, connection, t) ==
  IF Rejected(connection.origem, connection.destino, connection.minutos_ate_fechar)
    THEN g
    ELSE addConnectionUpdater(g, normalizeId(connection.origem),
                              normalizeId(connection.destino),
                              connection.minutos_ate_fechar, t)

\* What addConnection logs when App calls it on g and React runs its updater.
AddedLogs(g, connection) ==
  addConnectionLogs(connection.origem, connection.destino,
                    connection.minutos_ate_fechar)
  \o (IF Rejected(connection.origem, connection.destino,
                  connection.minutos_ate_fechar) THEN << >>
      ELSE addConnectionUpdaterLogs(g, normalizeId(connection.origem),
                                    normalizeId(connection.destino)))

\* processImageFile up to the await: the overlay goes up and the extraction
\* is under way.
ProcessImageFile ==
  /\ app' = [app EXCEPT !.isLoading = TRUE, !.inFlight = @ + 1]
  /\ UNCHANGED <<graphData, now, queue, call, storage>>
  /\ logs' = << >>

\* A paste with an image on the clipboard; ignored while the overlay is up or
\* a validation is pending.
HandlePaste ==
  /\ ~(app.isLoading \/ app.pendingValidation # << >>)
  /\ ProcessImageFile
  /\ last' = [op |-> "handlePaste", res |-> "", n |-> 0, k |-> 0]

\* A file chosen in the upload dialog.
HandleFileUpload ==
  /\ ProcessImageFile
  /\ last' = [op |-> "handleFileUpload", res |-> "", n |-> 0, k |-> 0]

\* connectionData && origem && destino && minutos_ate_fechar != null
Complete(connectionData) ==
  /\ connectionData.origem # Null /\ connectionData.origem # EmptyStr
  /\ connectionData.destino # Null /\ connectionData.destino # EmptyStr
  /\ connectionData.minutos_ate_fechar # NullMinutes

\* reader.onload after the await: complete data waits in the modal, anything
\* else ends in the error toast; the overlay comes down.
ExtractionDone(connectionData) ==
  /\ app.inFlight > 0
  /\ app' = [pendingValidation |->
               IF Complete(connectionData) THEN <<connectionData>>
               ELSE app.pendingValidation,
             isLoading |-> FALSE,
             inFlight |-> app.inFlight - 1]
  /\ last' = [op |-> "processImageFile",
              res |-> IF Complete(connectionData) THEN "pending" ELSE "error",
              n |-> 0, k |-> 0]
  /\ UNCHANGED <<graphData, now, queue, call, storage>>
  /\ logs' = << >>

\* {pendingValidation && <ValidationModal .../>}: the modal and its buttons
\* exist while a validation is pending.  The mutant shows them always.
ModalShownAlways(pendingValidation) == TRUE

ModalShown(pendingValidation) == pendingValidation # << >>

\* Confirm in the modal: the fields as the user left them, trimmed, go to
\* addConnection and the pending validation is cleared.
HandleValidationConfirm(origin, destination, minutes) ==
  /\ ModalShown(app.pendingValidation)
  /\ graphData' = Added(graphData, Connection(trim(origin), trim(destination), minutes), now)
  /\ app' = [app EXCEPT !.pendingValidation = << >>]
  /\ last' = [op |-> "handleValidationConfirm", res |-> "success",
              n |-> 0, k |-> 0]
  /\ UNCHANGED <<now, queue, call, storage>>
  /\ logs' = AddedLogs(graphData, Connection(trim(origin), trim(destination), minutes))

\* Cancel, or a click beside the modal.
HandleValidationCancel ==
  /\ ModalShown(app.pendingValidation)
  /\ app' = [app EXCEPT !.pendingValidation = << >>]
  /\ last' = [op |-> "handleValidationCancel", res |-> "discarded",
              n |-> 0, k |-> 0]
  /\ UNCHANGED <<graphData, now, queue, call, storage>>
  /\ logs' = << >>

\* An empty field of the manual form.
BlankField == -1

\* (Number(field) || 0)
NumberOrZero(field) == IF field = BlankField THEN 0 ELSE field

\* handleSubmit of ManualInputForm, with onAddConnection as App passes it.
HandleSubmit(from, to, hours, minutes) ==
  LET missing == from = EmptyStr \/ to = EmptyStr
                   \/ (hours = BlankField /\ minutes = BlankField)
      totalMinutes == NumberOrZero(hours) * 60 + NumberOrZero(minutes)
  IN  /\ graphData' =
           IF missing THEN graphData
           ELSE Added(graphData, Connection(from, to, totalMinutes), now)
      /\ last' = [op |-> "handleSubmit",
                  res |-> IF missing THEN "missing fields" ELSE "success",
                  n |-> 0, k |-> 0]
      /\ UNCHANGED <<now, queue, app, call, storage>>
      /\ logs' = IF missing THEN << >>
                 ELSE AddedLogs(graphData, Connection(from, to, totalMinutes))

\* ----------------------------------------------------------- queued updates

\* An operation applied in one step, as above, is the call together with
\* React running its updater.  Here the two are apart: a call hands its updater
\* to setGraphData, which queues it, and React runs the queued updaters later,
\* in the order of the calls, each on the result of the one before.  Until
\* then graphData is the snapshot the callbacks were rendered with.

\* setGraphData(prevData => ...): what the updater closes over.
Updater(kind, a, b, m, t) == [kind |-> kind, a |-> a, b |-> b, m |-> m, t |-> t]

\* Running one queued updater on prevData; t is Date.now().
RunUpdater(u, prevData, t) ==
  CASE u.kind = "addConnection" -> addConnectionUpdater(prevData, u.a, u.b, u.m, t)
    [] u.kind = "updateNodeName" -> updateNodeNameUpdater(prevData, u.a, u.b)
    [] u.kind = "updateNodeType" -> updateNodeTypeUpdater(prevData, u.a, u.t)
    [] OTHER -> sweepUpdater(prevData, t)

\* React runs the queue: every updater gets the state the one before it
\* returned.  The mutant hands every updater the rendered snapshot, as calls
\* of setGraphData with a value computed from the closure would.
RECURSIVE RunQueue(_, _, _)
RunQueue(updaters, prevData, t) ==
  IF updaters = << >> THEN prevData
  ELSE RunQueue(Tail(updaters), RunUpdater(Head(updaters), prevData, t), t)

RunQueueOnSnapshot(updaters, prevData, t) ==
  IF updaters = << >> THEN prevData
  ELSE RunUpdater(updaters[Len(updaters)], prevData, t)

Processed(updaters, prevData, t) == RunQueue(updaters, prevData, t)

\* addConnection is called; its updater waits in the queue.
QueueAddConnection(origem, destino, minutos) ==
  /\ queue' =
       IF Rejected(origem, destino, minutos) THEN queue
       ELSE Append(queue, Updater("addConnection", normalizeId(origem),
                                  normalizeId(destino), minutos, NoType))
  /\ last' = [op |-> "addConnection",
              res |-> CASE InvalidConnection(origem, destino, minutos) -> "invalid"
                        [] Rejected(origem, destino, minutos) -> "self-loop"
                        [] OTHER -> "queued",
              n |-> 0, k |-> 0]
  /\ UNCHANGED <<graphData, now, app, call, storage>>
  /\ logs' = addConnectionLogs(origem, destino, minutos)

\* updateNodeName is called: the collision check reads the rendered nodes.
QueueUpdateNodeName(oldName, newName) ==
  /\ queue' =
       IF RenameFails(graphData.nodes, oldName, newName) THEN queue
       ELSE Append(queue, Updater("updateNodeName", normalizeId(oldName),
                                  normalizeId(newName), 0, NoType))
  /\ last' = [op |-> "updateNodeName",
              res |-> CASE EmptyName(newName) -> "empty"
                        [] RenameFails(graphData.nodes, oldName, newName) -> "taken"
                        [] OTHER -> "queued",
              n |-> 0, k |-> 0]
  /\ UNCHANGED <<graphData, now, app, call, storage>>
  /\ logs' = updateNodeNameLogs(graphData.nodes, oldName, newName)

\* updateNodeType is called.
QueueUpdateNodeType(nodeId, newType) ==
  /\ queue' = Append(queue, Updater("updateNodeType", normalizeId(nodeId),
                                    EmptyStr, 0, newType))
  /\ last' = [op |-> "updateNodeType", res |-> "queued", n |-> 0, k |-> 0]
  /\ UNCHANGED <<graphData, now, app, call, storage>>
  /\ logs' = <<LogEntry("INFO", <<"Updating node type">>)>>

\* The interval timer fires.
QueueSweep ==
  /\ queue' = Append(queue, Updater("sweep", EmptyStr, EmptyStr, 0, NoType))
  /\ last' = [op |-> "sweep", res |-> "queued", n |-> 0, k |-> 0]
  /\ UNCHANGED <<graphData, now, app, call, storage>>
  /\ logs' = << >>

\* What the queued updaters log as React runs them.
UpdaterLogs(u, prevData, t) ==
  CASE u.kind = "addConnection" -> addConnectionUpdaterLogs(prevData, u.a, u.b)
    [] u.kind = "sweep" -> sweepLogs(prevData, t)
    [] OTHER -> << >>

RECURSIVE RunQueueLogs(_, _, _)
RunQueueLogs(updaters, prevData, t) ==
  IF updaters = << >> THEN << >>
  ELSE UpdaterLogs(Head(updaters), prevData, t)
       \o RunQueueLogs(Tail(updaters), RunUpdater(Head(updaters), prevData, t), t)

\* React processes the queue and renders the result.
Flush ==
  /\ queue # << >>
  /\ graphData' = Processed(queue, graphData, now)
  /\ queue' = << >>
  /\ last' = [op |-> "flush", res |-> "", n |-> Len(queue),
              k |-> Len(graphData.links) - Len(graphData'.links)]
  /\ UNCHANGED <<now, app, call, storage>>
  /\ logs' = RunQueueLogs(queue, graphData, now)

\* ------------------------------------------------------------ zoneValidator

\* ALL_ZONES of data/zoneNames, in the order in which the Set is iterated: the
\* two zones getZoneType knows and names built from them.
ALL_ZONES ==
  << <<"A">>, <<"B">>, <<"A", "B">>, <<"B", "A">>, <<"A", "B", "A">>,
     <<"A", "B", "B">>, <<"B", "A", "B">>, <<"A", "B", "A", "B">> >>

\* ALL_ZONES.has(name)
has(name) == \E i \in 1..Len(ALL_ZONES) : ALL_ZONES[i] = name

\* Math.min of two numbers.
min(x, y) == IF x <= y THEN x ELSE y

\* The inner loop: row holds columns 0 .. Len(row) - 1 of matrix[i], above is
\* matrix[i - 1] and ch is b.charAt(i - 1); column j is at index j + 1. The
\* mutant has no substitution.
RECURSIVE matrixRowNoSubstitution(_, _, _, _)
matrixRowNoSubstitution(row, above, a, ch) ==
  IF Len(row) = Len(a) + 1 THEN row
  ELSE LET j == Len(row)
           cell == IF ch = a[j] THEN above[j]
                   ELSE min(row[j] + 1, above[j + 1] + 1)
       IN matrixRowNoSubstitution(Append(row, cell), above, a, ch)

RECURSIVE matrixRow(_, _, _, _)
matrixRow(row, above, a, ch) ==
  IF Len(row) = Len(a) + 1 THEN row
  ELSE LET j == Len(row)
           cell == IF ch = a[j] THEN above[j]
                   ELSE min(above[j] + 1, min(row[j] + 1, above[j + 1] + 1))
       IN matrixRow(Append(row, cell), above, a, ch)

\* The outer loop from row i on: the value is matrix[b.length].
RECURSIVE matrixRows(_, _, _, _)
matrixRows(above, i, a, b) ==
  IF i > Len(b) THEN above
  ELSE matrixRows(matrixRow(<<i>>, above, a, b[i]), i + 1, a, b)

levenshteinDistance(a, b) ==
  IF Len(a) = 0 THEN Len(b)
  ELSE IF Len(b) = 0 THEN Len(a)
  ELSE matrixRows([j \in 1..Len(a) + 1 |-> j - 1], 1, a, b)[Len(a) + 1]

\* distance <= 3, and the mutant that lets one more edit through.
isCloseWithin4(distance) == distance <= 4

isClose(distance) == distance <= 3

\* The loop over ALL_ZONES: the close names with their distances, as found.
suggestionsWithDistance(upperCaseName) ==
  SelectSeq([i \in 1..Len(ALL_ZONES) |->
               [name |-> ALL_ZONES[i],
                distance |-> levenshteinDistance(upperCaseName, ALL_ZONES[i])]],
            LAMBDA s : isClose(s.distance))

\* Array.prototype.sort with (a, b) => a.distance - b.distance: stable, so an
\* entry goes behind the entries that are no farther than it is.
sortAsFound(found) == found

RECURSIVE sort(_)
sort(found) ==
  IF found = << >> THEN << >>
  ELSE LET sorted == sort(SubSeq(found, 1, Len(found) - 1))
           s == found[Len(found)]
           k == Cardinality({i \in 1..Len(sorted) :
                               sorted[i].distance <= s.distance})
       IN SubSeq(sorted, 1, k) \o <<s>> \o SubSeq(sorted, k + 1, Len(sorted))

\* .slice(0, 5).map(s => s.name), and the mutant that keeps them all.
bestSuggestionsAll(sorted) == [i \in 1..Len(sorted) |-> sorted[i].name]

bestSuggestions(sorted) ==
  [i \in 1..min(5, Len(sorted)) |-> sorted[i].name]

ValidationResult(isValid, suggestions) ==
  [isValid |-> isValid, suggestions |-> suggestions]

\* The mutant that looks the name up as it was typed.
validateZoneNameAsTyped(name) ==
  IF name = Null \/ name = EmptyStr THEN ValidationResult(FALSE, << >>)
  ELSE IF has(name) THEN ValidationResult(TRUE, <<name>>)
  ELSE LET best == bestSuggestions(sort(suggestionsWithDistance(toUpperCase(name))))
       IN IF Len(best) = 0 THEN ValidationResult(FALSE, <<name>>)
          ELSE ValidationResult(FALSE, best)

validateZoneName(name) ==
  IF name = Null \/ name = EmptyStr THEN ValidationResult(FALSE, << >>)
  ELSE LET upperCaseName == toUpperCase(name)
       IN IF has(upperCaseName) THEN ValidationResult(TRUE, <<upperCaseName>>)
          ELSE LET best == bestSuggestions(
                             sort(suggestionsWithDistance(upperCaseName)))
               IN IF Len(best) = 0 THEN ValidationResult(FALSE, <<name>>)
                  ELSE ValidationResult(FALSE, best)

\* ------------------------------------------------------- calls of functions

\* validateZoneName applied to the text of a field of the validation modal.
ValidateZoneNameCall ==
  /\ call.fn = "none"
  /\ call' = [fn |-> "validateZoneName", arg |-> call.arg,
              out |-> validateZoneName(call.arg)]
  /\ UNCHANGED <<graphData, now, last, queue, app, storage>>
  /\ logs' = << >>

\* ValidationField shows the suggestions as buttons unless the only one is the
\* text of the field.
hasSuggestions(value, validation) ==
  /\ ~validation.isValid
  /\ Len(validation.suggestions) > 0
  /\ \/ Len(validation.suggestions) > 1
     \/ toUpperCase(validation.suggestions[1]) # toUpperCase(value)

\* A click on the k-th button: the field takes that suggestion and the modal
\* validates the field again.
PickSuggestion(k) ==
  /\ call.fn = "validateZoneName"
  /\ hasSuggestions(call.arg, call.out)
  /\ k \in 1..Len(call.out.suggestions)
  /\ call' = [fn |-> "validateZoneName", arg |-> call.out.suggestions[k],
              out |-> validateZoneName(call.out.suggestions[k])]
  /\ UNCHANGED <<graphData, now, last, queue, app, storage>>
  /\ logs' = << >>

\* levenshteinDistance applied to the two texts of the argument.
LevenshteinDistanceCall ==
  /\ call.fn = "none"
  /\ call' = [fn |-> "levenshteinDistance", arg |-> call.arg,
              out |-> levenshteinDistance(call.arg[1], call.arg[2])]
  /\ UNCHANGED <<graphData, now, last, queue, app, storage>>
  /\ logs' = << >>

\* normalizeId applied to the argument, and then to its own result.
NormalizeIdCall ==
  LET id == IF call.fn = "normalizeId" THEN call.out ELSE call.arg
  IN /\ call' = [fn |-> "normalizeId", arg |-> id, out |-> normalizeId(id)]
     /\ UNCHANGED <<graphData, now, last, queue, app, storage>>
     /\ logs' = << >>

\* ----------------------------------------------------------- specifications

\* The zone types offered by the type selector.
TypeInputs == {"avalon"}

\* Snapshots found in storage: clean ones, and dirty ones written before ids
\* were normalized (duplicate names, a link between the duplicates, two rows
\* for one pair, a link whose endpoint has no node).
StoredNode(id, type) == [id |-> id, type |-> type]

StoredLink(s, t, e) == [source |-> Str(s), target |-> Str(t), expiration |-> e]

StoredNodeLists ==
  { << >>,
    <<StoredNode(<<"a">>, NoType)>>,
    <<StoredNode(<<"a">>, NoType), StoredNode(<<"A">>, "avalon")>>,
    <<StoredNode(<<"A">>, "avalon"), StoredNode(<<"b">>, NoType)>> }

StoredLinkLists ==
  { << >>,
    <<StoredLink(<<"a">>, <<"A">>, 60 * 1000)>>,
    <<StoredLink(<<"A">>, <<"b">>, 60 * 1000)>>,
    <<StoredLink(<<"A">>, <<"b">>, 60 * 1000), StoredLink(<<"b">>, <<"a">>, 0)>> }

Snapshots ==
  {[nodes |-> ns, links |-> ls] : ns \in StoredNodeLists, ls \in StoredLinkLists}

AddConnectionStep ==
  \E origem \in NameInputs, destino \in NameInputs, minutos \in MinuteInputs :
    AddConnection(origem, destino, minutos)

UpdateNodeNameStep ==
  \E oldName \in RawNames, newName \in NameInputs : UpdateNodeName(oldName, newName)

UpdateNodeTypeStep ==
  \E nodeId \in RawNames, newType \in TypeInputs : UpdateNodeType(nodeId, newType)

SetGraphStep == \E data \in Snapshots : SetGraph(data)

\* One more operation, while the behaviour is within its length.
Counted == steps < MaxSteps /\ steps' = steps + 1

Next ==
  \/ Counted /\ AddConnectionStep
  \/ Counted /\ UpdateNodeNameStep
  \/ Counted /\ UpdateNodeTypeStep
  \/ Counted /\ ClearGraph
  \/ Counted /\ SetGraphStep
  \/ Counted /\ Sweep
  \/ Counted /\ AdvanceTime

Spec == Init /\ [][Next]_vars

\* Observations and sweeps only, on links that ForceGraph may have bound.
NextAdd ==
  \/ Counted /\ AddConnectionStep
  \/ Counted /\ Sweep
  \/ Counted /\ AdvanceTime
  \/ Counted /\ Render

SpecAdd == Init /\ [][NextAdd]_vars

\* Observations as the extraction hands them over, any field of which may be
\* null, and the sweep.
ObservationNames == NameInputs \cup {Null}

ObservationMinutes == MinuteInputs \cup {NullMinutes}

ObserveStep ==
  \E origem \in ObservationNames, destino \in ObservationNames,
     minutos \in ObservationMinutes :
    AddConnection(origem, destino, minutos)

NextObs ==
  \/ Counted /\ ObserveStep
  \/ Counted /\ Sweep
  \/ Counted /\ AdvanceTime

SpecObs == Init /\ [][NextObs]_vars

\* Bulk loads of data of any origin: nodes as an older version stored them
\* (the name as typed, the id in any spelling, blank ids, a type or none) and
\* links whose endpoints are spelled like a node, unlike any node, name no
\* node at all, or are node objects of a live graph.
DirtyNode(id, type) == [id |-> id, name |-> id, type |-> type]

DirtyNodeLists ==
  { <<DirtyNode(<<" ", "a">>, NoType), DirtyNode(<<"A">>, "avalon")>>,
    <<DirtyNode(<<"A">>, "avalon"), DirtyNode(<<"a">>, NoType),
      DirtyNode(<<"b">>, NoType)>>,
    <<DirtyNode(<<"a">>, NoType), DirtyNode(<<"b">>, "avalon"),
      DirtyNode(<<"B">>, NoType), DirtyNode(<<" ">>, NoType)>>,
    <<DirtyNode(<<"c">>, NoType), DirtyNode(<<"b">>, NoType),
      DirtyNode(<<"a">>, NoType)>> }

DirtyLinkLists ==
  { <<StoredLink(<<" ", "a">>, <<"A">>, 60 * 1000)>>,
    <<StoredLink(<<"A">>, <<"b">>, 60 * 1000), StoredLink(<<"b">>, <<"a">>, 0)>>,
    <<[source |-> Obj(<<"a">>), target |-> Obj(<<"b">>), expiration |-> 0],
      StoredLink(<<"b">>, <<"B">>, 0)>>,
    <<StoredLink(<<"b", " ">>, <<"a">>, 60 * 1000), StoredLink(<<"a">>, <<"c">>, 0)>>,
    <<StoredLink(<<" ">>, <<"a">>, 0), StoredLink(<<"c">>, <<"b">>, 2 * 60 * 1000)>>,
    <<StoredLink(<<"a">>, <<"b">>, 0), StoredLink(<<"a">>, <<"b">>, 60 * 1000)>> }

DirtySnapshots ==
  {[nodes |-> ns, links |-> ls] : ns \in DirtyNodeLists, ls \in DirtyLinkLists}

LoadStep == \E data \in DirtySnapshots : SetGraph(data)

NextLoad ==
  \/ Counted /\ LoadStep
  \/ Counted /\ Sweep
  \/ Counted /\ AdvanceTime

SpecLoad == Init /\ [][NextLoad]_vars

\* A stored snapshot is loaded, ForceGraph may bind its links, and what
\* setGraph produced is handed to setGraph again.
FirstLoadStep ==
  last.op = "init" /\ \E data \in DirtySnapshots \cup Snapshots : SetGraph(data)

SetGraphAgain == last.op # "init" /\ SetGraph(graphData)

NextReload ==
  \/ Counted /\ FirstLoadStep
  \/ Counted /\ Render
  \/ Counted /\ SetGraphAgain

SpecReload == Init /\ [][NextReload]_vars

\* The engine left running: observations and retyping of two zones, ForceGraph,
\* the clock and the interval timer, which fires every five seconds for as
\* long as the hook is mounted.
LiveNames == {<<"a">>, <<" ", "A", " ">>, <<"b">>}

AddLive ==
  /\ \E origem \in LiveNames, destino \in LiveNames, minutos \in MinuteInputs :
       AddConnection(origem, destino, minutos)
  /\ UNCHANGED steps

ClearLive == ClearGraph /\ UNCHANGED steps

TypeLive ==
  /\ \E nodeId \in LiveNames, newType \in TypeInputs : UpdateNodeType(nodeId, newType)
  /\ UNCHANGED steps

RenderLive == Render /\ UNCHANGED steps

Tick == Sweep /\ UNCHANGED steps

ClockLive == AdvanceTime /\ UNCHANGED steps

NextLive ==
  \/ AddLive
  \/ TypeLive
  \/ ClearLive
  \/ RenderLive
  \/ Tick
  \/ ClockLive

SpecLive ==
  Init /\ [][NextLive]_vars /\ WF_vars(Tick) /\ WF_vars(ClockLive)

\* Calls that arrive while earlier updaters wait: a stored map is loaded, the
\* timer fires and the user adds, renames and retypes before React has
\* processed the queue.
QueuedOldNames == {<<"a">>, <<"b">>}

QueuedNewNames == {<<" ", "A", " ">>, <<"c">>}

QueueAddStep ==
  \E origem \in LiveNames, destino \in LiveNames, minutos \in MinuteInputs :
    QueueAddConnection(origem, destino, minutos)

QueueRenameStep ==
  \E oldName \in QueuedOldNames, newName \in QueuedNewNames :
    QueueUpdateNodeName(oldName, newName)

QueueTypeStep ==
  \E nodeId \in QueuedOldNames, newType \in TypeInputs :
    QueueUpdateNodeType(nodeId, newType)

NextQueue ==
  \/ Counted /\ queue = << >> /\ SetGraphStep
  \/ Counted /\ QueueAddStep
  \/ Counted /\ QueueRenameStep
  \/ Counted /\ QueueTypeStep
  \/ Counted /\ QueueSweep
  \/ Counted /\ Flush
  \/ Counted /\ AdvanceTime

SpecQueue == Init /\ [][NextQueue]_vars

\* The Load Map button, with whatever the storage holds, between sweeps.
JsonLink(s, t, e) == [source |-> s, target |-> t, expiration |-> e]

JsonLinkLists ==
  { <<JsonLink(<<"A">>, <<"b">>, <<"number", 60 * 1000>>),
      JsonLink(<<"b">>, <<"c">>, <<"number", 0>>)>>,
    <<JsonLink(<<" ", "a">>, <<"A">>, <<"number", 60 * 1000>>),
      JsonLink(<<"a">>, <<"b">>, <<"string", 2 * 60 * 1000>>)>>,
    <<JsonLink(<<"b">>, <<"a">>, <<"null", 0>>)>> }

StoredItems ==
  {StoredItem("none", << >>, << >>), StoredItem("garbage", << >>, << >>)}
    \cup {StoredItem("no-links", ns, << >>) : ns \in DirtyNodeLists}
    \cup {StoredItem("no-nodes", << >>, ls) : ls \in JsonLinkLists}
    \cup {StoredItem("map", ns, ls) : ns \in DirtyNodeLists, ls \in JsonLinkLists}

LoadMapStep == \E savedMap \in StoredItems : LoadMap(savedMap)

NextStore ==
  \/ Counted /\ LoadMapStep
  \/ Counted /\ Sweep
  \/ Counted /\ AdvanceTime

SpecStore == Init /\ [][NextStore]_vars

\* The App with its screenshot flow: pastes and uploads, extraction results
\* complete or not, the modal with fields the user may have edited, the manual
\* form, and the sweep.
ExtractedConnections ==
  { Connection(<<"a">>, <<"b">>, 1),
    Connection(<<" ", "A", " ">>, <<"c">>, 0),
    Connection(Null, <<"b">>, 1),
    Connection(<<"a">>, <<"b">>, NullMinutes) }

FieldTexts == {<<"a">>, <<"b", " ">>, <<" ">>, EmptyStr}

ExtractionDoneStep ==
  \E connectionData \in ExtractedConnections : ExtractionDone(connectionData)

ConfirmStep ==
  \E origin \in FieldTexts, destination \in FieldTexts, minutes \in MinuteInputs :
    HandleValidationConfirm(origin, destination, minutes)

HandleSubmitStep ==
  \E from \in FieldTexts, to \in FieldTexts,
     hours \in {BlankField, 0}, minutes \in {BlankField, 1} :
    HandleSubmit(from, to, hours, minutes)

NextApp ==
  \/ Counted /\ HandlePaste
  \/ Counted /\ HandleFileUpload
  \/ Counted /\ ExtractionDoneStep
  \/ Counted /\ ConfirmStep
  \/ Counted /\ HandleValidationCancel
  \/ Counted /\ HandleSubmitStep
  \/ Counted /\ Sweep
  \/ Counted /\ AdvanceTime

SpecApp == Init /\ [][NextApp]_vars

\* The characters of the texts a function is called with.
Chars == {"a", "B", "c", " "}

\* Every text of at most MaxLen characters, and null.
Texts == UNION {[1..n -> Chars] : n \in 0..MaxLen} \cup {Null}

\* A function is about to be called with one of the texts.
InitCall ==
  /\ graphData = [nodes |-> << >>, links |-> << >>]
  /\ now = 0
  /\ last = [op |-> "init", res |-> "", n |-> 0, k |-> 0]
  /\ steps = 0
  /\ queue = << >>
  /\ app = [pendingValidation |-> << >>, isLoading |-> FALSE, inFlight |-> 0]
  /\ call \in {[fn |-> "none", arg |-> text, out |-> EmptyStr] : text \in Texts}
  /\ storage = [kind |-> "none", nodes |-> << >>, links |-> << >>]
  /\ logs = << >>

NextNormalize == Counted /\ NormalizeIdCall

\* The letters of the words distances are taken between.
Letters == {"A", "B"}

\* Every word of at most MaxLen letters.
Words == UNION {[1..n -> Letters] : n \in 0..MaxLen}

\* levenshteinDistance is about to be called with two of the words.
InitDistance ==
  /\ graphData = [nodes |-> << >>, links |-> << >>]
  /\ now = 0
  /\ last = [op |-> "init", res |-> "", n |-> 0, k |-> 0]
  /\ steps = 0
  /\ queue = << >>
  /\ app = [pendingValidation |-> << >>, isLoading |-> FALSE, inFlight |-> 0]
  /\ call \in {[fn |-> "none", arg |-> <<a, b>>, out |-> 0] : a \in Words, b \in Words}
  /\ storage = [kind |-> "none", nodes |-> << >>, links |-> << >>]
  /\ logs = << >>

NextDistance == Counted /\ LevenshteinDistanceCall

SpecDistance == InitDistance /\ [][NextDistance]_vars

SpecNormalize == InitCall /\ [][NextNormalize]_vars

\* Observations of links that were loaded from a stored map or observed
\* before, as time passes.
NextRefresh ==
  \/ Counted /\ SetGraphStep
  \/ Counted /\ AddConnectionStep
  \/ Counted /\ AdvanceTime

SpecRefresh == Init /\ [][NextRefresh]_vars

\* The graph on screen: observations and renames of links ForceGraph has
\* bound or not, the interval timer, the clock and the Save Map button.
RichAddStep ==
  \E origem \in RawNames, destino \in RawNames, minutos \in MinuteInputs :
    AddConnection(origem, destino, minutos)

RichRenameStep ==
  \E oldName \in QueuedOldNames, newName \in QueuedNewNames :
    UpdateNodeName(oldName, newName)

NextRich ==
  \/ Counted /\ RichAddStep
  \/ Counted /\ RichRenameStep
  \/ Counted /\ Sweep
  \/ Counted /\ AdvanceTime
  \/ Counted /\ Render
  \/ Counted /\ SaveMap

SpecRich == Init /\ [][NextRich]_vars

\* The graph on screen, built by observations, reclassifications and stored
\* snapshots, swept, bound by ForceGraph, saved and loaded.
RoundAddStep ==
  \E origem \in LiveNames, destino \in LiveNames, minutos \in MinuteInputs :
    AddConnection(origem, destino, minutos)

RoundTypeStep ==
  \E nodeId \in LiveNames, newType \in TypeInputs : UpdateNodeType(nodeId, newType)

NextRound ==
  \/ Counted /\ RoundAddStep
  \/ Counted /\ RoundTypeStep
  \/ Counted /\ LoadStep
  \/ Counted /\ Sweep
  \/ Counted /\ AdvanceTime
  \/ Counted /\ Render
  \/ Counted /\ SaveMap
  \/ Counted /\ LoadStored

SpecRound == Init /\ [][NextRound]_vars

NextZone ==
  \/ Counted /\ ValidateZoneNameCall
  \/ Counted /\ \E k \in 1..5 : PickSuggestion(k)

SpecZone == InitCall /\ [][NextZone]_vars

\* Renames, blank new names among them, of nodes that connections created and
\* the user reclassified.
BlankNames == {EmptyStr, <<" ">>, <<" ", " ">>}

RenameStep ==
  \E oldName \in RawNames, newName \in RawNames \cup BlankNames :
    UpdateNodeName(oldName, newName)

NextRename ==
  \/ Counted /\ AddConnectionStep
  \/ Counted /\ RenameStep
  \/ Counted /\ UpdateNodeTypeStep

SpecRename == Init /\ [][NextRename]_vars

\* ------------------------------------------------- vocabulary of the claims

\* The bare id an endpoint stands for, read off the stored representation.
BareId(e) == IF e # << >> /\ e[1] = "{" THEN SubSeq(e, 2, Len(e)) ELSE e

\* The unordered pair of node ids a link joins.
PairOf(link) == {BareId(link.source), BareId(link.target)}

\* How many links of the list join x and y.
EdgesBetween(links, x, y) ==
  Cardinality({i \in 1..Len(links) : PairOf(links[i]) = {x, y}})

\* How many times the list holds the element.
Occurrences(seq, elem) == Cardinality({i \in 1..Len(seq) : seq[i] = elem})

Range(seq) == {seq[i] : i \in 1..Len(seq)}

\* A name without its case and its blanks: what two spellings of one zone share.
Lower(c) ==
  CASE c = "A" -> "a"
    [] c = "B" -> "b"
    [] c = "C" -> "c"
    [] OTHER -> c

Spelling(name) ==
  LET letters == SelectSeq(name, LAMBDA c : c # " ")
  IN  [i \in 1..Len(letters) |-> Lower(letters[i])]

\* The id a name stands for: its blanks at both ends cut, in capitals.
Upper(c) ==
  CASE c = "a" -> "A"
    [] c = "b" -> "B"
    [] c = "c" -> "C"
    [] OTHER -> c

Canon(name) ==
  LET inked == {i \in 1..Len(name) : name[i] # " "}
      first == CHOOSE i \in inked : \A j \in inked : i <= j
      final == CHOOSE i \in inked : \A j \in inked : j <= i
  IN  IF inked = {} THEN << >>
      ELSE [i \in 1..(final - first + 1) |-> Upper(name[first + i - 1])]

\* A text in capitals, blanks kept.
Capitals(text) == [i \in 1..Len(text) |-> Upper(text[i])]

\* The names of the known zones.
Vocabulary == Range(ALL_ZONES)

\* A candidate that is a text with at least one character.
NonEmpty(text) == text # Null /\ text # << >>

\* The entries of the vocabulary, by their place in the iteration, that are at
\* most 3 edits away from a text.
Close(text) ==
  {i \in 1..Len(ALL_ZONES) : levenshteinDistance(text, ALL_ZONES[i]) <= 3}

\* Entry i is suggested before entry j: it is nearer, or as near and earlier in
\* the iteration.
Before(i, j, text) ==
  LET di == levenshteinDistance(text, ALL_ZONES[i])
      dj == levenshteinDistance(text, ALL_ZONES[j])
  IN di < dj \/ (di = dj /\ i < j)

\* The place of a close entry among the close entries.
Rank(i, text) == Cardinality({j \in Close(text) : Before(j, i, text)}) + 1

\* The ids of the nodes of a graph.
IdsOf(g) == {g.nodes[i].id : i \in 1..Len(g.nodes)}

\* No node without a link.
NoIsolatedNode(g) ==
  \A i \in 1..Len(g.nodes) :
    \E j \in 1..Len(g.links) : g.nodes[i].id \in PairOf(g.links[j])

\* ------------------------------------------------------------------- claims

\* C1: from the empty graph, through addConnection calls (names in any case,
\* with blanks, in either order) and sweeps, no two links join the same
\* unordered pair of node ids.
C1_AtMostOneEdgePerPair ==
  \A i \in 1..Len(graphData.links) : \A j \in 1..Len(graphData.links) :
    i # j => PairOf(graphData.links[i]) # PairOf(graphData.links[j])

\* A repeated observation has refreshed a link that ForceGraph had bound,
\* next to another link.
C1_Witness ==
  /\ last.op = "addConnection" /\ last.res = "updated"
  /\ Len(graphData.links) >= 2
  /\ \E i \in 1..Len(graphData.links) :
       /\ IsObject(graphData.links[i].source)
       /\ graphData.links[i].expiration = now + 60 * 1000

\* C2: in every reachable state, setGraph of any input included, an accepted
\* addConnection(origin, destination, minutes) leaves exactly one link
\* between normalize(origin) and normalize(destination).
C2_ExactlyOneEdgeAfterAdd ==
  [][last'.op = "addConnection" =>
       \A origem \in RawNames, destino \in RawNames :
         (Spelling(origem) # Spelling(destino)
            /\ EdgesBetween(graphData'.links, toUpperCase(Spelling(origem)),
                            toUpperCase(Spelling(destino))) # 1)
           => \A minutos \in MinuteInputs : ~AddConnection(origem, destino, minutos)]_vars

\* C3: in every reachable state both endpoints of every link, as bare ids,
\* are ids of nodes.
C3_EndpointsAreNodes ==
  \A i \in 1..Len(graphData.links) :
    PairOf(graphData.links[i]) \subseteq NodeIds(graphData.nodes)

\* A sweep has dropped a node and left a link in place.
C3_Witness ==
  /\ last.op = "sweep" /\ last.k > 0
  /\ Len(graphData.links) > 0

\* C4, as claimed: in every reachable state every node is an endpoint of at
\* least one link.
C4_NoIsolatedNodeEver == NoIsolatedNode(graphData)

\* C4, amended: every operation but setGraph keeps the graph free of isolated
\* nodes, so no state reached from the empty graph without setGraph has one.
C4_OnlySetGraphIsolates ==
  [][(NoIsolatedNode(graphData) /\ last'.op # "setGraph")
       => NoIsolatedNode(graphData')]_vars

\* A sweep has removed the last link of one node while others stay linked.
C4_Witness ==
  /\ last.op = "sweep" /\ last.n > 0 /\ last.k > 0
  /\ Len(graphData.nodes) >= 2
  /\ NoIsolatedNode(graphData)

\* C5: with the operations run one at a time, no two nodes have the same id.
C5_NodeIdsUnique ==
  \A i \in 1..Len(graphData.nodes) : \A j \in 1..Len(graphData.nodes) :
    i # j => graphData.nodes[i].id # graphData.nodes[j].id

\* A rename onto the id of another node has been refused.
C5_Witness ==
  /\ last.op = "updateNodeName" /\ last.res = "taken"
  /\ Len(graphData.nodes) >= 2

\* C6: a sweep at time now removes every link with expiration <= now, the
\* instant of expiration included, and keeps every link with expiration > now
\* as it was.
C6_SweepRemovesExpiredOnly ==
  [][last'.op = "sweep" =>
       \A link \in Range(graphData.links) \cup Range(graphData'.links) :
         Occurrences(graphData'.links, link) =
           IF link.expiration > now THEN Occurrences(graphData.links, link) ELSE 0]_vars

\* A sweep at the very instant of an expiration has removed a link and kept
\* another.
C6_Witness ==
  /\ last.op = "sweep" /\ last.n > 0
  /\ now = 0
  /\ Len(graphData.links) > 0

\* C7: after a sweep in which a link expired, the nodes are exactly the
\* earlier nodes that a remaining link touches.
C7_SweepKeepsTouchedNodes ==
  [][(last'.op = "sweep" /\ last'.n > 0) =>
       graphData'.nodes =
         SelectSeq(graphData.nodes,
           LAMBDA node : \E j \in 1..Len(graphData'.links) :
                           node.id \in PairOf(graphData'.links[j]))]_vars

\* A sweep has dropped one node with its last link and kept the other end,
\* which a second link still holds.
C7_Witness ==
  /\ last.op = "sweep" /\ last.n = 1 /\ last.k = 1
  /\ Len(graphData.nodes) = 2

\* C8: a sweep in which no link has expired leaves the snapshot as it is.
C8_IdleSweepChangesNothing ==
  [][(last'.op = "sweep"
        /\ \A i \in 1..Len(graphData.links) : graphData.links[i].expiration > now)
       => graphData' = graphData]_vars

\* A sweep has found live links only.
C8_Witness ==
  /\ last.op = "sweep" /\ last.n = 0
  /\ Len(graphData.links) > 0

\* The links SpecLive can hold, and the last instant its clock reaches.
LiveEndpoints == {Str(<<"A">>), Str(<<"B">>), Obj(<<"A">>), Obj(<<"B">>)}

LiveLinks ==
  {e \in [source : LiveEndpoints, target : LiveEndpoints,
          expiration : {0, 60 * 1000, 2 * 60 * 1000}] :
     /\ IsObject(e.source) = IsObject(e.target)
     /\ BareId(e.source) # BareId(e.target)}

LastInstant == CHOOSE t \in Instants : \A u \in Instants : u <= t

\* C9: with the timer firing and the clock advancing, a link whose expiration
\* the clock reaches does not stay: it is swept, unless an observation gives
\* the pair another expiration or the graph is replaced first; and no link
\* with expiration <= now is left by a sweep.
C9_ExpiredLinksGoAway ==
  /\ [][last'.op = "sweep" =>
          \A i \in 1..Len(graphData'.links) : graphData'.links[i].expiration > now]_vars
  /\ \A e \in LiveLinks :
       (e \in Range(graphData.links) /\ e.expiration <= LastInstant)
         ~> (e \notin Range(graphData.links))

\* The timer has swept a link that expired a minute after the start.
C9_Witness ==
  /\ last.op = "sweep" /\ last.n > 0
  /\ now = LastInstant

\* C10: addConnection with two spellings of one zone changes nothing.
C10_SelfLoopIsNoOp ==
  [][(last'.op = "addConnection" /\ graphData' # graphData) =>
       \A origem \in RawNames, destino \in RawNames :
         Spelling(origem) = Spelling(destino) =>
           \A minutos \in MinuteInputs : ~AddConnection(origem, destino, minutos)]_vars

\* A self-loop has been refused on a graph that holds links.
C10_Witness ==
  /\ last.op = "addConnection" /\ last.res = "self-loop"
  /\ Len(graphData.links) > 0

\* C11: addConnection with a null or empty origin, a null or empty
\* destination, or null minutes changes nothing and ends in the warning of the
\* invalid-input guard; the call returns, no outcome of it is an error.
C11_InvalidObservationIsNoOp ==
  [][(last'.op = "addConnection"
        /\ (graphData' # graphData \/ last'.res # "invalid")) =>
       \A origem \in ObservationNames, destino \in ObservationNames,
          minutos \in ObservationMinutes :
         (origem \in {Null, EmptyStr} \/ destino \in {Null, EmptyStr}
            \/ minutos = NullMinutes)
           => ~AddConnection(origem, destino, minutos)]_vars

\* An invalid observation has been turned away from a graph that holds links.
C11_Witness ==
  /\ last.op = "addConnection" /\ last.res = "invalid"
  /\ Len(graphData.links) > 0

\* C12: with two distinct nodes in the graph, a rename of the one onto the id
\* of the other is refused and leaves nodes and links as they were.
C12_RenameOntoOtherNodeFails ==
  [][(last'.op = "updateNodeName"
        /\ (graphData' # graphData \/ last'.res # "taken")) =>
       \A oldName \in RawNames, newName \in RawNames :
         (Canon(oldName) # Canon(newName)
            /\ {Canon(oldName), Canon(newName)} \subseteq IdsOf(graphData))
           => ~UpdateNodeName(oldName, newName)]_vars

\* A rename onto another node has been refused on a graph with a link and a
\* retyped node.
C12_Witness ==
  /\ last.op = "updateNodeName" /\ last.res = "taken"
  /\ Len(graphData.links) > 0
  /\ \E i \in 1..Len(graphData.nodes) : graphData.nodes[i].type = "avalon"

\* What a rename of oldId to newId makes of the links: the endpoints that were
\* oldId are newId, the others and the expirations are as before.
LinksRenamed(before, after, oldId, newId) ==
  /\ Len(after) = Len(before)
  /\ \A i \in 1..Len(before) :
       /\ after[i].expiration = before[i].expiration
       /\ after[i].source =
            (IF BareId(before[i].source) = oldId THEN newId ELSE BareId(before[i].source))
       /\ after[i].target =
            (IF BareId(before[i].target) = oldId THEN newId ELSE BareId(before[i].target))

\* C13, as claimed: after a successful rename of an existing node the nodes
\* hold normalize(new) and no longer normalize(old), and the links are
\* rewritten from the old id to the new one.
C13_RenameReplacesOldId ==
  [][(last'.op = "updateNodeName" /\ last'.res = "renamed") =>
       \A oldName \in RawNames, newName \in RawNames :
         (Canon(oldName) \in IdsOf(graphData) /\ UpdateNodeName(oldName, newName))
           => /\ Canon(newName) \in IdsOf(graphData')
              /\ Canon(oldName) \notin IdsOf(graphData')
              /\ LinksRenamed(graphData.links, graphData'.links,
                              Canon(oldName), Canon(newName))]_vars

\* C13, amended: the old id leaves the nodes when the new name normalizes to
\* another id; a rename to another spelling of the same id keeps it.
C13_RenamePropagates ==
  [][(last'.op = "updateNodeName" /\ last'.res = "renamed") =>
       \A oldName \in RawNames, newName \in RawNames :
         (Canon(oldName) \in IdsOf(graphData) /\ UpdateNodeName(oldName, newName))
           => /\ Canon(newName) \in IdsOf(graphData')
              /\ Canon(oldName) # Canon(newName)
                   => Canon(oldName) \notin IdsOf(graphData')
              /\ Canon(oldName) = Canon(newName)
                   => IdsOf(graphData') = IdsOf(graphData)
              /\ LinksRenamed(graphData.links, graphData'.links,
                              Canon(oldName), Canon(newName))]_vars

\* A rename has given a node another id and rewritten that end of its link,
\* whose other end is the node it left alone.
C13_Witness ==
  /\ last.op = "updateNodeName" /\ last.res = "renamed"
  /\ last.k = 1 /\ last.n >= 1
  /\ Len(graphData.nodes) = 2
  /\ <<"C">> \in IdsOf(graphData)

\* C14: updateNodeType(nodeId, category) gives the node with id
\* normalize(nodeId) the category and changes nothing else: the links, the
\* ids and names of all nodes, their order and the categories of the other
\* nodes stay; without such a node the graph is as before.
C14_RetypeTouchesOneCategory ==
  [][last'.op = "updateNodeType" =>
       \A nodeId \in RawNames, newType \in TypeInputs :
         UpdateNodeType(nodeId, newType) =>
           /\ graphData'.links = graphData.links
           /\ Len(graphData'.nodes) = Len(graphData.nodes)
           /\ \A i \in 1..Len(graphData.nodes) :
                /\ graphData'.nodes[i].id = graphData.nodes[i].id
                /\ graphData'.nodes[i].name = graphData.nodes[i].name
                /\ graphData'.nodes[i].type =
                     (IF graphData.nodes[i].id = Canon(nodeId)
                        THEN newType ELSE graphData.nodes[i].type)
           /\ Canon(nodeId) \notin IdsOf(graphData) => graphData' = graphData]_vars

\* A node has been retyped next to a linked node that keeps the category the
\* classifier gave it.
C14_Witness ==
  /\ last.op = "updateNodeType" /\ last.k = 1
  /\ Len(graphData.links) > 0
  /\ \E i \in 1..Len(graphData.nodes) :
       graphData.nodes[i].id = <<"C">> /\ graphData.nodes[i].type = "avalon"
  /\ \E i \in 1..Len(graphData.nodes) : graphData.nodes[i].type = "royal"

\* The position of the first input node that normalizes to the id.
FirstOf(inNodes, id) ==
  CHOOSE i \in 1..Len(inNodes) :
    /\ Canon(inNodes[i].id) = id
    /\ \A j \in 1..(i - 1) : Canon(inNodes[j].id) # id

\* C15: setGraph keeps one node for each distinct normalized id among the
\* input nodes: the first input node that normalizes to it, in input order,
\* its name equal to the id, its category kept if it has one and taken from
\* the classifier if not; the later nodes of the same id are dropped.
C15_SetGraphKeepsFirstNodePerId ==
  [][last'.op = "setGraph" =>
       \A data \in DirtySnapshots :
         SetGraph(data) =>
           LET kept == graphData'.nodes
               firsts == {i \in 1..Len(data.nodes) :
                            \A j \in 1..(i - 1) :
                              Canon(data.nodes[j].id) # Canon(data.nodes[i].id)}
           IN  /\ Len(kept) = Cardinality(firsts)
               /\ \A k \in 1..Len(kept) :
                    LET f == FirstOf(data.nodes, kept[k].id)
                    IN  /\ kept[k].id \in {Canon(data.nodes[i].id) : i \in firsts}
                        /\ kept[k].name = kept[k].id
                        /\ kept[k].type =
                             (IF data.nodes[f].type # NoType THEN data.nodes[f].type
                                ELSE getZoneType(kept[k].id))
                        /\ \A m \in 1..Len(kept) :
                             m < k => FirstOf(data.nodes, kept[m].id) < f]_vars

\* Two spellings of one zone with a link between them have been loaded as one
\* node, of the category the classifier gives it, and no link.
C15_Witness ==
  /\ last.op = "setGraph" /\ last.k = 1 /\ last.n = 1
  /\ Len(graphData.nodes) = 1 /\ Len(graphData.links) = 0
  /\ graphData.nodes[1] = [id |-> <<"A">>, name |-> <<"A">>, type |-> "royal"]

\* C16: setGraph keeps an input link exactly if both its endpoints, as
\* normalized ids, are ids of kept nodes and differ; the kept links are in
\* input order, their endpoints the bare normalized ids, their expirations
\* as given.
C16_SetGraphKeepsLinksOfKeptNodes ==
  [][last'.op = "setGraph" =>
       \A data \in DirtySnapshots :
         SetGraph(data) =>
           LET EndId(e) == Canon(BareId(e))
               keep ==
                 SelectSeq(data.links,
                   LAMBDA link :
                     /\ EndId(link.source) \in IdsOf(graphData')
                     /\ EndId(link.target) \in IdsOf(graphData')
                     /\ EndId(link.source) # EndId(link.target))
           IN  graphData'.links =
                 [i \in 1..Len(keep) |->
                    [source |-> EndId(keep[i].source),
                     target |-> EndId(keep[i].target),
                     expiration |-> keep[i].expiration]]]_vars

\* A load has kept a link whose endpoint is spelled unlike any input node and
\* dropped a link to a zone without a node.
C16_Witness ==
  /\ last.op = "setGraph" /\ last.n = 1
  /\ graphData.links =
       <<[source |-> <<"B">>, target |-> <<"A">>, expiration |-> 60 * 1000]>>
  /\ <<"C">> \notin IdsOf(graphData)

\* C17: in every reachable state every node has its id as name, and the id is
\* normalized: no blank at either end, in capitals.
C17_NamesAreNormalizedIds ==
  \A i \in 1..Len(graphData.nodes) :
    /\ graphData.nodes[i].name = graphData.nodes[i].id
    /\ graphData.nodes[i].id = Canon(graphData.nodes[i].id)

\* A load has merged two spellings of a zone and left the node under its
\* normalized id.
C17_Witness ==
  /\ last.op = "setGraph" /\ last.k > 0
  /\ Len(graphData.nodes) > 0

\* C18: in every reachable state the two endpoints of every link are
\* different ids.
C18_NoSelfLoop ==
  \A i \in 1..Len(graphData.links) :
    BareId(graphData.links[i].source) # BareId(graphData.links[i].target)

\* A renamed node is linked, and a link between two spellings of it has
\* been refused.
C18_Witness ==
  /\ last.op = "addConnection" /\ last.res = "self-loop"
  /\ \E i \in 1..Len(graphData.links) : <<"C">> \in PairOf(graphData.links[i])
  /\ \E i \in 1..Len(graphData.nodes) : graphData.nodes[i].type = "avalon"

\* The operation behind a queued updater, called by itself on graph g at
\* time t and run at once.
Alone(u, g, t) ==
  CASE u.kind = "sweep" -> sweepUpdater(g, t)
    [] u.kind = "addConnection" -> addConnectionUpdater(g, u.a, u.b, u.m, t)
    [] u.kind = "updateNodeName" ->
         IF NameTaken(g.nodes, u.a, u.b) THEN g ELSE updateNodeNameUpdater(g, u.a, u.b)
    [] OTHER -> updateNodeTypeUpdater(g, u.a, u.t)

\* C19: when a sweep and one addConnection, updateNodeName or updateNodeType
\* are queued against the same snapshot, in either order, the graph React
\* renders is the one that the two operations give when called one after the
\* other in that order, and it shows both: no link that had expired is left
\* by a sweep that ran last, and the link added, the name given or the
\* category set after the sweep is there.
C19_QueuedSweepAndMutationCompose ==
  [][(last'.op = "flush" /\ Len(queue) = 2
        /\ (queue[1].kind = "sweep") # (queue[2].kind = "sweep")) =>
       LET first == queue[1]
           second == queue[2]
       IN  /\ graphData' = Alone(second, Alone(first, graphData, now), now)
           /\ second.kind = "sweep" =>
                \A i \in 1..Len(graphData'.links) :
                  graphData'.links[i].expiration > now
           /\ first.kind = "sweep" =>
                \A i \in 1..Len(graphData'.links) :
                  \/ graphData'.links[i].expiration > now
                  \/ /\ second.kind = "addConnection"
                     /\ PairOf(graphData'.links[i]) = {second.a, second.b}
           /\ second.kind = "addConnection" =>
                \E i \in 1..Len(graphData'.links) :
                  /\ PairOf(graphData'.links[i]) = {second.a, second.b}
                  /\ graphData'.links[i].expiration = now + second.m * 60 * 1000
           /\ (second.kind = "updateNodeName" /\ second.a # second.b) =>
                second.a \notin IdsOf(graphData')
           /\ second.kind = "updateNodeType" =>
                \A i \in 1..Len(graphData'.nodes) :
                  graphData'.nodes[i].id = second.a
                    => graphData'.nodes[i].type = second.t]_vars

\* The timer fired and the user renamed a zone before React ran either
\* updater: the expired link is gone and the zone has its new name.
C19_Witness ==
  /\ last.op = "flush" /\ last.n = 2 /\ last.k = 1
  /\ <<"C">> \in IdsOf(graphData)
  /\ Len(graphData.links) = 1

\* The snapshot a stored map parses to, its expirations as instants.
ParsedSnapshot(savedMap) ==
  [nodes |-> savedMap.nodes,
   links |-> [i \in 1..Len(savedMap.links) |->
                [source |-> savedMap.links[i].source,
                 target |-> savedMap.links[i].target,
                 expiration |->
                   IF savedMap.links[i].expiration = <<"null", 0>> THEN 0
                   ELSE savedMap.links[i].expiration[2]]]]

\* C20: loading a stored map puts in place of the graph what setGraph makes
\* of the parsed snapshot, and reports success; with nothing stored, or with
\* stored data that does not parse to a node list and a link list, the graph
\* stays as it is and an error is reported.
C20_LoadGoesThroughSetGraph ==
  [][last'.op = "loadMap" =>
       \A savedMap \in StoredItems :
         LoadMap(savedMap) =>
           IF savedMap.kind = "map"
             THEN /\ graphData' = Sanitized(ParsedSnapshot(savedMap))
                  /\ \A i \in 1..Len(graphData'.nodes) :
                       graphData'.nodes[i].id = Canon(graphData'.nodes[i].id)
                  /\ \A i \in 1..Len(graphData'.links) :
                       PairOf(graphData'.links[i]) \subseteq IdsOf(graphData')
                  /\ last'.res = "success"
             ELSE /\ graphData' = graphData
                  /\ last'.res \in {"error: no saved map", "error: failed to load"}]_vars

\* A load of stored data without a node list has failed and left the
\* graph of an earlier load in place.
C20_Witness ==
  /\ last.op = "loadMap" /\ last.res = "error: failed to load"
  /\ Len(graphData.links) > 0

\* C21: what the extraction returns changes nothing of the graph; it changes
\* only when the user confirms a pending validation (or submits the manual
\* form, or a link expires); a cancel leaves the graph as it is and clears the
\* pending validation, after which there is nothing to confirm.
C21_GraphChangesOnlyOnConfirm ==
  [][/\ graphData' # graphData =>
          /\ last'.op \in {"handleValidationConfirm", "handleSubmit", "sweep"}
          /\ last'.op = "handleValidationConfirm" => app.pendingValidation # << >>
     /\ last'.op \in {"handlePaste", "handleFileUpload", "processImageFile"} =>
          graphData' = graphData
     /\ last'.op = "handleValidationCancel" =>
          /\ app.pendingValidation # << >>
          /\ graphData' = graphData
          /\ app'.pendingValidation = << >>
     /\ last'.op = "handleValidationConfirm" => app'.pendingValidation = << >>
    ]_vars

\* The user has discarded an extracted connection: the graph holds the link
\* of the manual form only and nothing is pending.
C21_Witness ==
  /\ last.op = "handleValidationCancel"
  /\ Len(graphData.links) = 1
  /\ app.pendingValidation = << >>

\* C22: normalizeId is idempotent: applied to a value it returned, it returns
\* that value again, whatever text (or null) the first call was given.
C22_NormalizeIdempotent ==
  call.fn = "normalizeId" =>
    /\ normalizeId(call.out) = call.out
    /\ steps >= 2 => call.out = call.arg

C22_Witness ==
  /\ call.fn = "normalizeId"
  /\ steps = 2
  /\ call.out = <<"A", " ", "B">>

\* C23: validateZoneName answers valid exactly when the candidate is not empty
\* and its capitals are a name of the vocabulary, and then the suggestions are
\* that one name.
C23_ValidIffKnown ==
  call.fn = "validateZoneName" =>
    /\ call.out.isValid <=>
         (NonEmpty(call.arg) /\ Capitals(call.arg) \in Vocabulary)
    /\ call.out.isValid => call.out.suggestions = <<Capitals(call.arg)>>

C23_Witness ==
  /\ call.fn = "validateZoneName"
  /\ call.arg = <<"a", "B">>
  /\ call.out.isValid
  /\ call.out.suggestions = << <<"A", "B">> >>

C25_PassThroughAsTyped ==
  (/\ call.fn = "validateZoneName"
   /\ NonEmpty(call.arg)
   /\ Close(Capitals(call.arg)) = {}) =>
    /\ ~call.out.isValid
    /\ call.out.suggestions = <<call.arg>>

C25_Witness ==
  /\ call.fn = "validateZoneName"
  /\ call.arg = <<"c", "c", " ", "c">>
  /\ Close(Capitals(call.arg)) = {}
  /\ call.out.suggestions = << <<"c", "c", " ", "c">> >>

\* C26: validateZoneName answers invalid with no suggestion for null and for
\* the empty text, and with 1 to 5 suggestions for every other candidate.
C26_SuggestionCount ==
  call.fn = "validateZoneName" =>
    IF NonEmpty(call.arg)
    THEN Len(call.out.suggestions) \in 1..5
    ELSE ~call.out.isValid /\ call.out.suggestions = << >>

C26_Witness ==
  /\ call.fn = "validateZoneName"
  /\ call.arg = Null
  /\ ~call.out.isValid
  /\ call.out.suggestions = << >>

\* The graph once React has run the updaters that wait.
UpToDate == RunQueue(queue, graphData, now)

\* C27: a rename called while earlier updaters wait is refused as taken exactly
\* when the graph those updaters lead to holds another node with the new id,
\* and the graph React renders afterwards never holds two nodes with one id.
C27_RenameCheckSeesQueuedUpdates ==
  [][/\ last'.op = "updateNodeName" =>
          \A oldName \in QueuedOldNames, newName \in QueuedNewNames :
            QueueUpdateNodeName(oldName, newName) =>
              ((last'.res = "taken") <=>
                 (/\ Canon(newName) # Canon(oldName)
                  /\ Canon(newName) \in IdsOf(UpToDate)))
     /\ last'.op = "flush" =>
          \A i, j \in 1..Len(graphData'.nodes) :
            graphData'.nodes[i].id = graphData'.nodes[j].id => i = j]_vars

\* C28: an accepted addConnection gives a link of the pair, when there is one,
\* the expiration now + minutes * 60000, whether that is later or earlier than
\* the one it had, and otherwise appends one link of the pair with that
\* expiration; every other link, and every node that was there, with its
\* category, stays as it was, and the nodes added are among the two endpoints.
C28_AddRefreshesOrInserts ==
  [][(last'.op = "addConnection" /\ last'.res \in {"updated", "inserted"}) =>
       \A origem \in RawNames, destino \in RawNames, minutos \in MinuteInputs :
         AddConnection(origem, destino, minutos) =>
           LET pair == {Canon(origem), Canon(destino)}
               before == graphData.links
               after == graphData'.links
               hits == {i \in 1..Len(before) : PairOf(before[i]) = pair}
               expiration == now + minutos * 60000
           IN  /\ hits # {} =>
                    /\ Len(after) = Len(before)
                    /\ \E i \in hits :
                         /\ after[i].expiration = expiration
                         /\ PairOf(after[i]) = pair
                         /\ \A j \in 1..Len(before) : j # i => after[j] = before[j]
               /\ hits = {} =>
                    /\ Len(after) = Len(before) + 1
                    /\ \A j \in 1..Len(before) : after[j] = before[j]
                    /\ PairOf(after[Len(after)]) = pair
                    /\ after[Len(after)].expiration = expiration
               /\ Len(graphData'.nodes) \in
                    Len(graphData.nodes)..(Len(graphData.nodes) + 2)
               /\ \A i \in 1..Len(graphData'.nodes) :
                    IF i <= Len(graphData.nodes)
                    THEN graphData'.nodes[i] = graphData.nodes[i]
                    ELSE graphData'.nodes[i].id \in pair]_vars

\* A link loaded with an expiration a minute ahead has been observed again
\* with no time left: it now closes at once, and the category the stored map
\* gave its node is kept.
C28_Witness ==
  /\ last.op = "addConnection" /\ last.res = "updated"
  /\ steps = 2 /\ now = 0
  /\ Len(graphData.links) = 1
  /\ graphData.links[1].expiration = 0
  /\ \E i \in 1..Len(graphData.nodes) : graphData.nodes[i].type = "avalon"

\* C29: setGraph keeps every input link between two kept nodes: for any two
\* ids of the result, the result holds as many links between them as the
\* input holds links whose endpoints normalize to the two, in either order,
\* so two input links of one pair give two links of that pair.
C29_SetGraphKeepsDuplicateEdges ==
  [][last'.op = "setGraph" =>
       \A data \in DirtySnapshots :
         SetGraph(data) =>
           \A x \in IdsOf(graphData'), y \in IdsOf(graphData') :
             x # y =>
               EdgesBetween(graphData'.links, x, y) =
                 Cardinality({i \in 1..Len(data.links) :
                                {Canon(BareId(data.links[i].source)),
                                 Canon(BareId(data.links[i].target))} = {x, y}})]_vars

\* A load of two rows for one pair, written in opposite directions, has kept
\* both.
C29_Witness ==
  /\ last.op = "setGraph" /\ last.n = 0
  /\ Len(graphData.links) = 2
  /\ PairOf(graphData.links[1]) = PairOf(graphData.links[2])
  /\ graphData.links[1].source = graphData.links[2].target

\* A graph with every link endpoint written as the bare id it stands for.
Bare(g) ==
  [g EXCEPT !.links =
     [i \in 1..Len(g.links) |->
        [g.links[i] EXCEPT !.source = BareId(@), !.target = BareId(@)]]]

\* What a graph says: the ids of its nodes, in order, and the pair and the
\* expiration of each link, in order.
Content(g) ==
  [ids |-> [i \in 1..Len(g.nodes) |-> g.nodes[i].id],
   links |-> [i \in 1..Len(g.links) |->
                <<PairOf(g.links[i]), g.links[i].expiration>>]]

\* An endpoint written as a node object.
Rich(e) == e # << >> /\ e[1] = "{"

AllBare(links) ==
  \A i \in 1..Len(links) : ~Rich(links[i].source) /\ ~Rich(links[i].target)

\* C30: addConnection, updateNodeName, the sweep and saveMap give, on a graph
\* whose link endpoints are node objects, the ids, link pairs and expirations
\* they give on the same graph with bare ids, and when they change the graph
\* or write it to storage, every link they leave there has bare ids as
\* endpoints.
C30_RichEndpointsReadAndStoredAsIds ==
  [][/\ last'.op = "addConnection" =>
          \A origem \in RawNames, destino \in RawNames, minutos \in MinuteInputs :
            AddConnection(origem, destino, minutos) =>
              /\ Content(graphData') =
                   Content(Added(Bare(graphData),
                                 Connection(origem, destino, minutos), now))
              /\ last'.res \in {"updated", "inserted"} =>
                   AllBare(graphData'.links)
     /\ last'.op = "updateNodeName" =>
          \A oldName \in QueuedOldNames, newName \in QueuedNewNames :
            UpdateNodeName(oldName, newName) =>
              /\ Content(graphData') =
                   Content(IF RenameFails(graphData.nodes, oldName, newName)
                             THEN Bare(graphData)
                             ELSE updateNodeNameUpdater(Bare(graphData),
                                    Canon(oldName), Canon(newName)))
              /\ last'.res = "renamed" => AllBare(graphData'.links)
     /\ last'.op = "sweep" =>
          /\ Content(graphData') = Content(sweepUpdater(Bare(graphData), now))
          /\ graphData' # graphData => AllBare(graphData'.links)
     /\ last'.op = "saveMap" =>
          /\ storage' = mapData(graphData.nodes, Bare(graphData).links)
          /\ AllBare(storage'.links)]_vars

\* C31: updateNodeName with an empty or whitespace-only new name returns
\* failure, leaves the graph as it was, and logs one warning and nothing of
\* another level.
Blank(text) == \A i \in 1..Len(text) : text[i] = " "

C31_BlankRenameIsNoOp ==
  [][last'.op = "updateNodeName" =>
       \A oldName \in RawNames, newName \in BlankNames :
         (Blank(newName) /\ UpdateNodeName(oldName, newName)) =>
           /\ last'.res = "empty"
           /\ graphData' = graphData
           /\ Len(logs') = 1
           /\ logs'[1].level = "WARN"]_vars

C31_Witness ==
  /\ last.op = "updateNodeName" /\ last.res = "empty"
  /\ graphData.nodes # << >>
  /\ \E i \in 1..Len(logs) :
       logs[i] = LogEntry("WARN", <<"Attempted to update node with empty name.">>)

\* C32: whenever setGraph drops a node or a link, it logs an entry that tells
\* of the drop: an entry besides the one that reports the sizes of the input.
\* The entries it logs for merged nodes are there (C32_MergedNodesAreLogged);
\* a dropped link has none.
TellsOfDrop(entry) == entry.message[1] # "Loading graph"

C32_DropsAreLogged ==
  (last.op = "setGraph" /\ (last.n > 0 \/ last.k > 0)) =>
    \E i \in 1..Len(logs) : TellsOfDrop(logs[i])

C32_MergedNodesAreLogged ==
  (last.op = "setGraph" /\ last.k > 0) =>
    /\ Cardinality({i \in 1..Len(logs) : logs[i].level = "DEBUG"}) = last.k
    /\ \E i \in 1..Len(logs) :
         /\ logs[i].level = "WARN"
         /\ logs[i].message[2] - logs[i].message[3] = last.k

\* C33: levenshteinDistance(a, b) is the least number of insertions, deletions
\* and substitutions of one character that turn a into b; it is 0 exactly when
\* a and b are equal, and it is the same in both directions.
OneEdit(w) ==
  {[w EXCEPT ![i] = c] : i \in 1..Len(w), c \in Letters}
  \cup {SubSeq(w, 1, i - 1) \o SubSeq(w, i + 1, Len(w)) : i \in 1..Len(w)}
  \cup {SubSeq(w, 1, i) \o <<c>> \o SubSeq(w, i + 1, Len(w)) :
          i \in 0..Len(w), c \in Letters}

\* The words at most k edits away from a, none longer than MaxLen + 1.
RECURSIVE Within(_, _)
Within(k, a) ==
  IF k = 0 THEN {a}
  ELSE LET near == Within(k - 1, a)
       IN near \cup {w \in UNION {OneEdit(v) : v \in near} : Len(w) <= MaxLen + 1}

Edits(a, b) ==
  CHOOSE k \in 0..MaxLen : b \in Within(k, a) /\ \A j \in 0..(k - 1) : b \notin Within(j, a)

C33_DistanceIsEditDistance ==
  call.fn = "levenshteinDistance" =>
    LET a == call.arg[1]
        b == call.arg[2]
    IN /\ call.out = Edits(a, b)
       /\ (call.out = 0) <=> (a = b)
       /\ call.out = levenshteinDistance(b, a)

C33_Witness ==
  /\ call.fn = "levenshteinDistance"
  /\ call.arg = << <<"A", "B", "A">>, <<"B", "A", "B", "B">> >>
  /\ call.out = 2

\* C34: no node has the empty string as its id: a connection whose origin or
\* destination is blank is rejected, from the manual form and from the modal.
\* The modal does reject it (C34_ModalRejectsBlank); the manual form does not.
C34_NoEmptyIdNode ==
  \A i \in 1..Len(graphData.nodes) : graphData.nodes[i].id # << >>

C34_ModalRejectsBlank ==
  [][last'.op = "handleValidationConfirm" =>
       \A origin \in FieldTexts, destination \in FieldTexts, minutes \in MinuteInputs :
         ((Blank(origin) \/ Blank(destination))
            /\ HandleValidationConfirm(origin, destination, minutes)) =>
           /\ graphData' = graphData
           /\ logs' = <<LogEntry("WARN", <<"Attempted to add an invalid connection.">>)>>]_vars

C36_RenameOfUnknownNodeSucceeds ==
  [][last'.op = "updateNodeName" =>
       \A oldName \in RawNames, newName \in RawNames :
         (/\ Canon(oldName) \notin IdsOf(graphData)
          /\ Canon(newName) \notin IdsOf(graphData)
          /\ UpdateNodeName(oldName, newName)) =>
           /\ last'.res = "renamed"
           /\ graphData'.nodes = graphData.nodes
           /\ \A i \in 1..Len(graphData.links) :
                /\ PairOf(graphData'.links[i]) = PairOf(graphData.links[i])
                /\ graphData'.links[i].expiration = graphData.links[i].expiration
           /\ Len(graphData'.links) = Len(graphData.links)
           /\ logs' = <<LogEntry("INFO", <<"Updating node name">>)>>]_vars

\* A rename that succeeded and changed nothing, not even a category the user
\* had chosen: neither of its names had a node.
C36_Witness ==
  /\ last.op = "updateNodeName" /\ last.res = "renamed"
  /\ last.k = 0 /\ last.n = 0
  /\ IdsOf(graphData) = {<<"A">>, <<"B">>}
  /\ \A i \in 1..Len(graphData.nodes) : graphData.nodes[i].type = "avalon"

\* C37: setGraph applied to what setGraph produced, as it is or as ForceGraph
\* bound it, produces the same nodes (ids, names, categories, in the same
\* order) and the same links (ends, expirations, in the same order).
C37_SetGraphIdempotent ==
  [][(last.op # "init" /\ last'.op = "setGraph" /\ SetGraph(graphData)) =>
       /\ graphData'.nodes = graphData.nodes
       /\ Len(graphData'.links) = Len(graphData.links)
       /\ \A i \in 1..Len(graphData.links) :
            /\ BareId(graphData'.links[i].source) = BareId(graphData.links[i].source)
            /\ BareId(graphData'.links[i].target) = BareId(graphData.links[i].target)
            /\ graphData'.links[i].expiration = graphData.links[i].expiration]_vars

\* The second setGraph has run on a graph of merged nodes with a link.
C37_Witness ==
  /\ last.op = "setGraph" /\ steps >= 2
  /\ last.n = 0 /\ last.k = 0
  /\ Len(graphData.nodes) >= 2
  /\ graphData.links # << >>
  /\ \E i \in 1..Len(graphData.nodes) : graphData.nodes[i].type = "avalon"

\* C38: saveMap and then loadMap, with nothing in between, gives back the
\* graph that was saved: the same node ids and categories, and the same links
\* with the same end ids and expirations, also when ForceGraph had replaced
\* the ends by node objects.
C38_SaveThenLoadRestores ==
  [][(last.op = "saveMap" /\ last'.op = "loadMap" /\ LoadMap(storage)) =>
       /\ last'.res = "success"
       /\ Len(graphData'.nodes) = Len(graphData.nodes)
       /\ \A i \in 1..Len(graphData.nodes) :
            /\ graphData'.nodes[i].id = graphData.nodes[i].id
            /\ graphData'.nodes[i].type = graphData.nodes[i].type
       /\ Len(graphData'.links) = Len(graphData.links)
       /\ \A i \in 1..Len(graphData.links) :
            /\ BareId(graphData'.links[i].source) = BareId(graphData.links[i].source)
            /\ BareId(graphData'.links[i].target) = BareId(graphData.links[i].target)
            /\ graphData'.links[i].expiration = graphData.links[i].expiration]_vars

\* A map with a link that has expired and a category the user chose has been
\* saved and loaded.
C38_Witness ==
  /\ last.op = "loadMap" /\ last.res = "success"
  /\ storage.kind = "map"
  /\ Len(storage.links) = Len(graphData.links)
  /\ \E i \in 1..Len(graphData.links) : graphData.links[i].expiration <= now
  /\ \E i \in 1..Len(graphData.nodes) : graphData.nodes[i].type = "avalon"

\* C39: at most one extraction is under way at a time, and a connection that
\* waits in the modal is not replaced by the result of another extraction. A
\* file upload starts an extraction whatever is under way or waiting, so
\* neither part holds.
C39_OneExtractionAtATime == app.inFlight <= 1

C39_PendingIsNotReplaced ==
  [][(app.pendingValidation # << >> /\ last'.op = "processImageFile") =>
       app'.pendingValidation = app.pendingValidation]_vars

====
